---- MODULE Spec2Model ----
(***************************************************************************)
(* Verification model of the beacon triage pipeline.                        *)
(*                                                                         *)
(* Three specifications share this module:                                 *)
(*   Spec / FairSpec          CouncilGraph.run and CouncilGraph.analyze_fast*)
(*                            (src/src/orchestrator/agent_graph.py) over    *)
(*                            the event loop's default executor.            *)
(*   SpecReasoner /           MistralReasoner.analyze with the              *)
(*   FairSpecReasoner         StrategySelector, the Expert worker thread    *)
(*                            and the LLM lock.                             *)
(*   SpecEngine               LLMEngine.generate / LLMEngine.chat callers.  *)
(*                                                                         *)
(* Scores, weights and thresholds are integers in hundredths (0.90 = 90).  *)
(* A fused score is kept as an exact fraction num/den (in hundredths), so  *)
(* no rounding is introduced by the model.                                 *)
(***************************************************************************)
EXTENDS Integers, Sequences, FiniteSets, TLC

\* ------------------------------------------------------------------------
\* Bounds of the model
\* ------------------------------------------------------------------------
\* worker threads of the event loop's default executor
\* (ThreadPoolExecutor: min(32, cpu_count + 4) in CPython)
MaxWorkers == 2

\* concurrent MistralReasoner.analyze calls
NumCallers == 2

\* words of a response streamed as token events
MaxWords == 2

\* threads calling the LLMEngine
NumEngineThreads == 3

\* observers subscribed to the CrisisEventBus
MaxObservers == 2

\* threads calling the LLMEngine
EngineThreads == 1..NumEngineThreads

\* mistral_reasoner.py:212, StrategySelector(max_expert_failures=3)
MaxExpertFailures == 3

\* ------------------------------------------------------------------------
\* Values
\* ------------------------------------------------------------------------
\* Python None for an optional record (a record, so that it compares with records)
None == [ none |-> TRUE ]

\* agent_graph.py:98 and :416, the regex safety floor 0.90
RegexFloor == 90

\* ConsensusConfig() as constructed by run (line 495) and analyze_fast
\* (line 329): the dataclass defaults
ConsensusConfig ==
    [ w_regex |-> 40, w_semantic |-> 20, w_mistral |-> 30, w_history |-> 10,
      crisis_threshold |-> 90, caution_threshold |-> 65 ]

\* SafetyResult records SafetyService.analyze may return (the fields the
\* Council reads), with scores on both sides of every comparison it makes
SafetyResults ==
    { [ p_regex |-> r, p_semantic |-> s, sarcasm_filtered |-> f,
        matched_patterns |-> m ] :
        r \in {0, 31, 89, 90, 95}, s \in {0, 51, 100},
        f \in BOOLEAN, m \in { {}, {"self_harm"} } }

\* ReasoningResult records MistralReasoner.analyze may return.  p_mistral is
\* float(data["risk_score"]) of the Expert's JSON answer, which nothing
\* clamps (strategies.py line 255): 150 stands for an answer above 1.0
ReasoningResults ==
    { [ p_mistral |-> p, risk_level |-> l, clinical_markers |-> k ] :
        p \in {0, 50, 100, 150}, l \in {"safe", "caution", "crisis"},
        k \in { {}, {"ai_detected"} } }

VARIABLES
    \* ---- CouncilGraph: one triage at a time on the event loop ----
    mode,            \* "idle" | "run" | "fast"
    pc,              \* position of the triage
    safety_result,   \* AgentState / analyze_fast local
    mistral_result,
    matched_patterns,
    risk_level,
    is_crisis,
    final_score,     \* [num, den]: num/den hundredths
    final_response,  \* "absent" | "generated"
    trace_steps,
    clinical,        \* the triage's mistral.analyze call on the executor:
                     \* "none" | "running" | "hanging"
    late,            \* abandoned Clinical calls still running on a worker
    hung             \* abandoned Clinical calls that never complete

councilVars == << mode, pc, safety_result, mistral_result, matched_patterns,
                  risk_level, is_crisis, final_score, final_response,
                  trace_steps, clinical, late, hung >>

VARIABLES
    \* ---- MistralReasoner.analyze calls sharing one StrategySelector ----
    expert_failures, \* StrategySelector.expert_failures
    apc,             \* position of each analyze call
    message,         \* the call's message: which selector triggers it has
    fast_result,     \* result of the Fast strategy (step 1)
    selected,        \* (strategy, reason) returned by select_strategy
    expert,          \* the call's Expert worker thread
    expert_result,   \* result of the Expert strategy, once it finished
    loaded,          \* value record_expert_failure read before adding 1
    recorded,        \* record_expert_failure calls made by the call
    analyze_result,  \* what analyze returned
    outcome,         \* how the call ended: "fast" | "expert" | "timeout"
                     \*                     | "exception"
    llm_lock         \* LLMEngine._lock: 0, or the thread that holds it

reasonerVars == << expert_failures, apc, message, fast_result, selected,
                   expert, expert_result, loaded, recorded, analyze_result, outcome >>

VARIABLES
    \* ---- LLMEngine and the threads that call generate / chat ----
    mock_mode,       \* LLMEngine.mock_mode
    model,           \* LLMEngine.model: "none" | "loaded"
    epc,             \* position of each calling thread
    loads            \* model handles Llama(...) has returned to load_model

engineVars == << mock_mode, model, epc, loads >>

VARIABLES
    \* ---- ConsensusOrchestrator.analyze and its CrisisEventBus ----
    observers,        \* CrisisEventBus._observers, in subscription order
    notified,         \* observers invoked by the current publish, in order
    bpc,              \* publish: "idle" | "publishing" | "returned" | "raised"
    opc,              \* analyze: "idle" | "publish" | "returned" | "raised"
    consensus_result, \* the ConsensusResult built by analyze
    published         \* publish calls made for the current triage

busVars == << observers, notified, bpc, opc, consensus_result, published >>

VARIABLES
    \* ---- ConversationAgent.generate_response ----
    student_message,  \* the student's message (the phrases it contains)
    context_risk_level, \* context.risk_level of the call
    response_mode,    \* "native_mistral" | "openai" | "mock" | "fallback"
    candidate,        \* response_text before validation
    response_text,    \* the text generate_response returns
    cpc               \* "idle" | "generate" | "validate" | "returned"
                      \*        | "raised"

convVars == << student_message, context_risk_level, response_mode, candidate,
              response_text, cpc >>

VARIABLES
    \* ---- one call of a ReasoningStrategy's analyze ----
    strategy_call,    \* the strategy called and what its model did
    strategy_result   \* the ReasoningResult it returned

stratVars == << strategy_call, strategy_result >>

VARIABLES
    \* ---- construction of the LLMEngine singleton ----
    instances,         \* objects created by LLMEngine.__new__ (0: _instance is None)
    initialized,       \* _instance._initialized: "unset" | "false" | "true"
    llama_available,   \* LLAMA_AVAILABLE: llama_cpp could be imported
    model_file_exists  \* Path(self.model_path).exists()

singletonVars == << instances, initialized, llama_available,
                    model_file_exists >>

VARIABLES
    \* ---- one construction of a ConsensusConfig ----
    config_call,      \* the field values given to ConsensusConfig(...)
    config_result     \* the object constructed, or the ValueError raised

configVars == << config_call, config_result >>

VARIABLES
    \* ---- one call of RegexDetectionStrategy.analyze ----
    regex_message,    \* the message, a sequence of characters
    regex_result      \* the (score, matched categories) returned

regexVars == << regex_message, regex_result >>

VARIABLES
    \* ---- SafetyService.analyze: the last call and the record it returned ----
    service_call,    \* the message and what the semantic layer found in it
    service_result   \* the SafetyResult

safetyVars == << service_call, service_result >>

VARIABLES
    \* ---- chat_stream.generate_stream: one /chat/stream response ----
    spc,             \* position of the generator
    skip_response,   \* request.skip_response
    analysis_result, \* what analyze_fast returned to the generator
    words,           \* words of response_text not yet streamed
    events,          \* the events yielded so far, in order
    conversation_saved, \* the request's Conversation row is committed
    crisis_event_saved  \* the request's CrisisEvent row is committed

streamVars == << spc, skip_response, analysis_result, words, events,
                 conversation_saved, crisis_event_saved >>

VARIABLES
    \* ---- main.chat: one POST /chat request ----
    chat_pc,         \* position of the handler
    chat_reply       \* what the caller receives: status and kind of body

chatVars == << chat_pc, chat_reply >>

VARIABLES
    \* ---- ConsensusOrchestrator's CircuitBreaker and Mistral layer ----
    failure_count,     \* CircuitBreaker.failure_count
    last_failure_time, \* CircuitBreaker.last_failure_time (None at first)
    is_open,           \* CircuitBreaker.is_open
    now,               \* time.time(), in seconds since construction
    mpc,               \* _run_parallel_analysis: "idle" | "await_mistral"
                       \*        | "gathered" | "returned" | "raised"
    mistral_score,     \* what _run_mistral_layer handed to gather
    mistral_calls,     \* mistral.analyze calls made by the current analyze
    failed_in_a_row    \* history: analyze calls since the last one whose
                       \* Mistral call neither timed out nor failed
                       \* (counted up to circuit_breaker_threshold)

breakerVars == << failure_count, last_failure_time, is_open, now, mpc,
                  mistral_score, mistral_calls, failed_in_a_row >>

vars == << councilVars, reasonerVars, llm_lock, engineVars, busVars,
           convVars,
           stratVars,
           singletonVars,
           configVars,
           regexVars,
           safetyVars,
           streamVars,
           chatVars,
           breakerVars >>

\* what a step of the Council leaves alone
notCouncil == << reasonerVars, llm_lock, engineVars, busVars, convVars,
           stratVars,
           singletonVars,
           configVars,
           regexVars,
           safetyVars,
           streamVars,
           chatVars,
           breakerVars >>

\* the variables of the analyze calls other than `expert`
reasonerVarsButExpert ==
    << expert_failures, apc, message, fast_result, selected, expert_result,
       loaded, recorded, analyze_result, outcome >>

\* ------------------------------------------------------------------------
\* CouncilGraph
\* ------------------------------------------------------------------------
\* worker threads of the default executor that are occupied
BusyWorkers ==
    late + hung + (IF clinical \in {"running", "hanging"} THEN 1 ELSE 0)

\* loop.run_in_executor(None, ...): a worker thread of the default executor
\* is free to take the submitted call
WorkerFree == BusyWorkers < MaxWorkers

\* routing without the p_regex > 0.30 trigger of the yellow path
RouteAfterReflex_NoRegexTrigger(crisis, safety) ==
    IF crisis THEN "red_path"
    ELSE IF \/ safety.p_semantic > 50
            \/ safety.sarcasm_filtered
            \/ Cardinality(safety.matched_patterns) > 0
         THEN "yellow_path"
         ELSE "green_path"

\* _route_after_reflex
RouteAfterReflex(crisis, safety) ==
    IF crisis THEN "red_path"
    ELSE IF \/ safety.p_semantic > 50
            \/ safety.sarcasm_filtered
            \/ Cardinality(safety.matched_patterns) > 0
            \/ safety.p_regex > 30
         THEN "yellow_path"
         ELSE "green_path"

\* conditional edges that send every route to the Clinical node
EdgeAfterReflex_AlwaysClinical(path) == "clinical_agent"

\* the conditional edges of _build_graph
EdgeAfterReflex(path) ==
    IF path = "green_path" THEN "empathy_agent" ELSE "clinical_agent"

\* a layer whose score is 0 treated as absent: the weights are normalised
\* over the layers with a non-zero score
Consensus_ZeroMeansAbsent(config, safety, mistral) ==
    LET wr == IF safety.p_regex # 0 THEN config.w_regex ELSE 0
        ws == IF safety.p_semantic # 0 THEN config.w_semantic ELSE 0
        wm == IF mistral # None /\ mistral.p_mistral # 0
              THEN config.w_mistral ELSE 0
    IN [ num |-> safety.p_regex * wr + safety.p_semantic * ws
                 + (IF wm # 0 THEN mistral.p_mistral * wm ELSE 0),
         den |-> IF wr + ws + wm = 0 THEN 1 ELSE wr + ws + wm ]

\* the weights used as they are, over the sum of all four
Consensus_NotNormalised(config, safety, mistral) ==
    [ num |-> safety.p_regex * config.w_regex
              + safety.p_semantic * config.w_semantic
              + (IF mistral # None THEN mistral.p_mistral * config.w_mistral
                 ELSE 0),
      den |-> config.w_regex + config.w_semantic + config.w_mistral
              + config.w_history ]

\* PACA fusion of _empathy_node / analyze_fast, as an exact fraction
Consensus(config, safety, mistral) ==
    IF mistral # None
    THEN [ num |-> safety.p_regex * config.w_regex
                   + safety.p_semantic * config.w_semantic
                   + mistral.p_mistral * config.w_mistral,
           den |-> config.w_regex + config.w_semantic + config.w_mistral ]
    ELSE [ num |-> safety.p_regex * config.w_regex
                   + safety.p_semantic * config.w_semantic,
           den |-> config.w_regex + config.w_semantic ]

\* final_score >= threshold, on fractions
ScoreAtLeast(score, threshold) == score.num >= threshold * score.den

\* thresholds without the CAUTION branch
RiskFromScore_NoCaution(config, score) ==
    IF ScoreAtLeast(score, config.crisis_threshold) THEN "CRISIS" ELSE "SAFE"

\* thresholds of _empathy_node (lines 245-254)
RiskFromScore(config, score) ==
    IF ScoreAtLeast(score, config.crisis_threshold) THEN "CRISIS"
    ELSE IF ScoreAtLeast(score, config.caution_threshold) THEN "CAUTION"
    ELSE "SAFE"

EmpathyRisk_NoOverride(config, score, crisis) == RiskFromScore(config, score)

\* _empathy_node lines 245-259: thresholds, then the routing override
EmpathyRisk(config, score, crisis) ==
    IF crisis THEN "CRISIS" ELSE RiskFromScore(config, score)

EmpathyIsCrisis_NoOverride(config, score, crisis) ==
    ScoreAtLeast(score, config.crisis_threshold)

\* _empathy_node lines 245-259: the is_crisis each branch assigns next to
\* current_risk
EmpathyIsCrisis(config, score, crisis) ==
    IF crisis THEN TRUE ELSE ScoreAtLeast(score, config.crisis_threshold)

FastRisk_NoFloor(config, score, regex_score) == RiskFromScore(config, score)

\* analyze_fast lines 415-424
FastRisk(config, score, regex_score) ==
    IF ScoreAtLeast(score, config.crisis_threshold) \/ regex_score >= RegexFloor
    THEN "CRISIS"
    ELSE IF ScoreAtLeast(score, config.caution_threshold) THEN "CAUTION"
    ELSE "SAFE"

\* analyze_fast lines 415-424: the is_crisis each branch assigns next to
\* risk_level
FastIsCrisis(config, score, regex_score) ==
    ScoreAtLeast(score, config.crisis_threshold) \/ regex_score >= RegexFloor

\* run: initial_state, then the graph is entered at reflex_agent
RunCalled ==
    /\ pc \in {"idle", "done", "raised", "raised_reflex", "raised_clinical"}
    /\ mode' = "run"
    /\ pc' = "reflex_agent"
    /\ safety_result' = None
    /\ mistral_result' = None
    /\ matched_patterns' = {}
    /\ risk_level' = "SAFE"
    /\ final_score' = [num |-> 0, den |-> 1]
    /\ is_crisis' = FALSE
    /\ trace_steps' = << >>
    /\ final_response' = "absent"
    /\ UNCHANGED << clinical, late, hung >>

\* run is called, by any caller
Run ==
    /\ RunCalled
    /\ UNCHANGED notCouncil

ReflexNodeOn_SarcasmClears(result) ==
    /\ mode = "run" /\ pc = "reflex_agent"
    /\ WorkerFree
    /\ LET is_hard_crisis == /\ result.p_regex >= RegexFloor
                             /\ ~result.sarcasm_filtered IN
         /\ safety_result' = result
         /\ is_crisis' = is_hard_crisis
         /\ matched_patterns' = result.matched_patterns
         /\ trace_steps' = Append(trace_steps, "reflex_checked")
         /\ pc' = EdgeAfterReflex(RouteAfterReflex(is_hard_crisis, result))
    /\ UNCHANGED << mode, mistral_result, risk_level, final_score,
                    final_response, clinical, late, hung >>

\* _reflex_node once safety.analyze returned `result`, then
\* _route_after_reflex picks the next node
ReflexNodeOn(result) ==
    /\ mode = "run" /\ pc = "reflex_agent"
    /\ WorkerFree
    /\ LET is_hard_crisis == result.p_regex >= RegexFloor IN
         /\ safety_result' = result
         /\ is_crisis' = is_hard_crisis
         /\ matched_patterns' = result.matched_patterns
         /\ trace_steps' = Append(trace_steps, "reflex_checked")
         /\ pc' = EdgeAfterReflex(RouteAfterReflex(is_hard_crisis, result))
    /\ UNCHANGED << mode, mistral_result, risk_level, final_score,
                    final_response, clinical, late, hung >>

\* _reflex_node, whatever record safety.analyze returns
ReflexNode ==
    /\ \E result \in SafetyResults : ReflexNodeOn(result)
    /\ UNCHANGED notCouncil

\* _reflex_node: safety.analyze raises, and with it run
ReflexNodeRaises ==
    /\ mode = "run" /\ pc = "reflex_agent"
    /\ WorkerFree
    /\ pc' = "raised_reflex"
    /\ UNCHANGED << mode, safety_result, mistral_result, matched_patterns,
                    risk_level, is_crisis, final_score, final_response,
                    trace_steps, clinical, late, hung >>
    /\ UNCHANGED notCouncil

\* _clinical_node up to its await: mistral.analyze goes to the executor
ClinicalNodeSubmit ==
    /\ mode = "run" /\ pc = "clinical_agent"
    /\ WorkerFree
    /\ clinical' \in {"running", "hanging"}
    /\ pc' = "clinical_await"
    /\ UNCHANGED << mode, safety_result, mistral_result, matched_patterns,
                    risk_level, is_crisis, final_score, final_response,
                    trace_steps, late, hung >>
    /\ UNCHANGED notCouncil

\* _clinical_node after its await (no timeout): mistral.analyze returned
ClinicalNode ==
    /\ mode = "run" /\ pc = "clinical_await"
    /\ clinical = "running"
    /\ \E result \in ReasoningResults :
         /\ mistral_result' = result
         /\ risk_level' = result.risk_level
         /\ is_crisis' = (is_crisis \/ result.risk_level = "crisis")
         /\ matched_patterns' = matched_patterns \cup result.clinical_markers
    /\ trace_steps' = Append(trace_steps, "clinical_reviewed")
    /\ clinical' = "none"
    /\ pc' = "empathy_agent"
    /\ UNCHANGED << mode, safety_result, final_score, final_response,
                    late, hung >>
    /\ UNCHANGED notCouncil

\* _clinical_node: mistral.analyze re-raises an error (mistral_reasoner.py
\* lines 290-296); the node has no handler, so run raises
ClinicalNodeRaises ==
    /\ mode = "run" /\ pc = "clinical_await"
    /\ clinical = "running"
    /\ clinical' = "none"
    /\ pc' = "raised_clinical"
    /\ UNCHANGED << mode, safety_result, mistral_result, matched_patterns,
                    risk_level, is_crisis, final_score, final_response,
                    trace_steps, late, hung >>
    /\ UNCHANGED notCouncil

\* _empathy_node: fusion, thresholds, override, response generation
EmpathyNode ==
    /\ mode = "run" /\ pc = "empathy_agent"
    /\ LET score == Consensus(ConsensusConfig, safety_result, mistral_result)
           current_risk == EmpathyRisk(ConsensusConfig, score, is_crisis)
       IN \/ /\ final_response' = "generated"
             /\ risk_level' = current_risk
             /\ is_crisis' = EmpathyIsCrisis(ConsensusConfig, score, is_crisis)
             /\ final_score' = score
             /\ trace_steps' = Append(trace_steps, "response_generated")
             /\ pc' = "done"
          \/ \* generate_response raises RuntimeError: the node's update
             \* is never applied and run raises
             /\ pc' = "raised"
             /\ UNCHANGED << final_response, risk_level, is_crisis,
                             final_score, trace_steps >>
    /\ UNCHANGED << mode, safety_result, mistral_result, matched_patterns,
                    clinical, late, hung >>
    /\ UNCHANGED notCouncil

\* analyze_fast is called
AnalyzeFastCalled ==
    /\ pc \in {"idle", "done", "raised", "raised_reflex", "raised_clinical"}
    /\ mode' = "fast"
    /\ pc' = "fast_safety"
    /\ safety_result' = None
    /\ mistral_result' = None
    /\ matched_patterns' = {}
    /\ risk_level' = "SAFE"
    /\ final_score' = [num |-> 0, den |-> 1]
    /\ is_crisis' = FALSE
    /\ trace_steps' = << >>
    /\ final_response' = "absent"
    /\ UNCHANGED << clinical, late, hung >>

\* analyze_fast is called, by any caller
AnalyzeFast ==
    /\ AnalyzeFastCalled
    /\ UNCHANGED notCouncil

\* analyze_fast step 1 once safety.analyze, on the default executor,
\* returned `result`
FastSafetyOn(result) ==
    /\ mode = "fast" /\ pc = "fast_safety"
    /\ WorkerFree
    /\ safety_result' = result
    /\ matched_patterns' = result.matched_patterns
    /\ pc' = "fast_mistral"
    /\ UNCHANGED << mode, mistral_result, risk_level, is_crisis, final_score,
                    final_response, trace_steps, clinical, late, hung >>

\* analyze_fast step 1, whatever record safety.analyze returns
FastSafety ==
    /\ \E result \in SafetyResults : FastSafetyOn(result)
    /\ UNCHANGED notCouncil

\* analyze_fast step 2, lines 321-323: mistral.analyze goes to the executor
FastMistralSubmit ==
    /\ mode = "fast" /\ pc = "fast_mistral"
    /\ WorkerFree
    /\ clinical' \in {"running", "hanging"}
    /\ pc' = "fast_await"
    /\ UNCHANGED << mode, safety_result, mistral_result, matched_patterns,
                    risk_level, is_crisis, final_score, final_response,
                    trace_steps, late, hung >>
    /\ UNCHANGED notCouncil

\* analyze_fast step 2, line 324: mistral.analyze finished within the wait
FastMistral ==
    /\ mode = "fast" /\ pc = "fast_await"
    /\ clinical = "running"
    /\ \E result \in ReasoningResults : mistral_result' = result
    /\ clinical' = "none"
    /\ pc' = "fast_consensus"
    /\ UNCHANGED << mode, safety_result, matched_patterns, risk_level,
                    is_crisis, final_score, final_response, trace_steps,
                    late, hung >>
    /\ UNCHANGED notCouncil

\* an await of the Clinical call without the bound of wait_for: the triage
\* goes on only when the call is not hanging
FastMistralTimeout_AwaitsCall ==
    /\ mode = "fast" /\ pc = "fast_await"
    /\ clinical # "hanging"
    /\ mistral_result' = None
    /\ late' = IF clinical = "running" THEN late + 1 ELSE late
    /\ hung' = hung
    /\ clinical' = "none"
    /\ pc' = "fast_consensus"
    /\ UNCHANGED << mode, safety_result, matched_patterns, risk_level,
                    is_crisis, final_score, final_response, trace_steps >>
    /\ UNCHANGED notCouncil

\* analyze_fast step 2, lines 325-326: asyncio.wait_for times out.  The call
\* is abandoned and keeps its worker thread (and finishes later or never).
FastMistralTimeout ==
    /\ mode = "fast" /\ pc = "fast_await"
    /\ mistral_result' = None
    /\ late' = IF clinical = "running" THEN late + 1 ELSE late
    /\ hung' = IF clinical = "hanging" THEN hung + 1 ELSE hung
    /\ clinical' = "none"
    /\ pc' = "fast_consensus"
    /\ UNCHANGED << mode, safety_result, matched_patterns, risk_level,
                    is_crisis, final_score, final_response, trace_steps >>
    /\ UNCHANGED notCouncil

\* analyze_fast step 3 and the returned record
FastConsensus ==
    /\ mode = "fast" /\ pc = "fast_consensus"
    /\ LET score == Consensus(ConsensusConfig, safety_result, mistral_result)
           level == FastRisk(ConsensusConfig, score, safety_result.p_regex)
       IN /\ final_score' = score
          /\ risk_level' = level
          /\ is_crisis' = FastIsCrisis(ConsensusConfig, score,
                                       safety_result.p_regex)
    /\ pc' = "done"
    /\ UNCHANGED << mode, safety_result, mistral_result, matched_patterns,
                    final_response, trace_steps, clinical, late, hung >>
    /\ UNCHANGED notCouncil

\* an abandoned Clinical call finishes and frees its worker thread
AbandonedCallFinishes ==
    /\ late > 0
    /\ late' = late - 1
    /\ UNCHANGED << mode, pc, safety_result, mistral_result, matched_patterns,
                    risk_level, is_crisis, final_score, final_response,
                    trace_steps, clinical, hung >>
    /\ UNCHANGED notCouncil

\* ------------------------------------------------------------------------
\* MistralReasoner.analyze with intelligent selection, StrategySelector
\* ------------------------------------------------------------------------
\* threads that call MistralReasoner.analyze concurrently (the Council hands
\* every Clinical call to an executor thread)
Callers == 1..NumCallers

\* a message, by the selector triggers it has: _has_crisis_keywords(message)
\* and _is_ambiguous(message, context)
Messages == [ crisis_keywords : BOOLEAN, ambiguous : BOOLEAN ]

\* FastEmotionStrategy.analyze lines 102-131, for a heuristic score p_score
FastEmotion(p_score) ==
    [ p_mistral |-> p_score,
      risk_level |-> IF p_score > 75 THEN "caution"
                     ELSE IF p_score > 50 THEN "caution"
                     ELSE "safe",
      model_used |-> "distilbert-emotion" ]

\* heuristic scores the emotion classifier may lead to
FastScores == {40, 80}

\* ReasoningResult records ExpertLLMStrategy.analyze may return: a parsed
\* answer of the model, or the fallback of its except branch
ExpertResults ==
    { [ p_mistral |-> 95, risk_level |-> "crisis",
        model_used |-> "mistral-7b-instruct-v0.2" ],
      [ p_mistral |-> 0, risk_level |-> "safe", model_used |-> "error" ] }

NoResult == [ p_mistral |-> 0, risk_level |-> "safe", model_used |-> "unset" ]
NoSelection == [ strategy |-> "unset", reason |-> "unset" ]
NoMessage == [ crisis_keywords |-> FALSE, ambiguous |-> FALSE ]

\* StrategySelector.is_circuit_open
IsCircuitOpen(failures) == failures >= MaxExpertFailures

SelectStrategy_NoHighRisk(failures, msg, preliminary_risk) ==
    IF IsCircuitOpen(failures)
    THEN [ strategy |-> "fast", reason |-> "circuit_breaker_open" ]
    ELSE IF msg.crisis_keywords
    THEN [ strategy |-> "expert", reason |-> "crisis_keywords" ]
    ELSE IF msg.ambiguous
    THEN [ strategy |-> "expert", reason |-> "ambiguous" ]
    ELSE [ strategy |-> "fast", reason |-> "routine" ]

SelectStrategy_KeywordsFirst(failures, msg, preliminary_risk) ==
    IF msg.crisis_keywords
    THEN [ strategy |-> "expert", reason |-> "crisis_keywords" ]
    ELSE IF IsCircuitOpen(failures)
    THEN [ strategy |-> "fast", reason |-> "circuit_breaker_open" ]
    ELSE IF preliminary_risk > 70
    THEN [ strategy |-> "expert", reason |-> "high_risk" ]
    ELSE IF msg.ambiguous
    THEN [ strategy |-> "expert", reason |-> "ambiguous" ]
    ELSE [ strategy |-> "fast", reason |-> "routine" ]

\* StrategySelector.select_strategy
SelectStrategy(failures, msg, preliminary_risk) ==
    IF IsCircuitOpen(failures)
    THEN [ strategy |-> "fast", reason |-> "circuit_breaker_open" ]
    ELSE IF msg.crisis_keywords
    THEN [ strategy |-> "expert", reason |-> "crisis_keywords" ]
    ELSE IF preliminary_risk > 70
    THEN [ strategy |-> "expert", reason |-> "high_risk" ]
    ELSE IF msg.ambiguous
    THEN [ strategy |-> "expert", reason |-> "ambiguous" ]
    ELSE [ strategy |-> "fast", reason |-> "routine" ]

\* what a step of an analyze call leaves alone
notReasoner == << councilVars, engineVars, busVars, convVars,
           stratVars,
           singletonVars,
           configVars,
           regexVars,
           safetyVars,
           streamVars,
           chatVars,
           breakerVars >>

\* analyze is called; _analyze_with_selection step 1 runs the Fast strategy
Analyze(c) ==
    /\ apc[c] \in {"idle", "returned"}
    /\ \E msg \in Messages, p_score \in FastScores :
         /\ message' = [message EXCEPT ![c] = msg]
         /\ fast_result' = [fast_result EXCEPT ![c] = FastEmotion(p_score)]
    /\ apc' = [apc EXCEPT ![c] = "select"]
    /\ selected' = [selected EXCEPT ![c] = NoSelection]
    /\ analyze_result' = [analyze_result EXCEPT ![c] = NoResult]
    /\ outcome' = [outcome EXCEPT ![c] = "unset"]
    /\ recorded' = [recorded EXCEPT ![c] = 0]
    /\ loaded' = [loaded EXCEPT ![c] = 0]
    /\ UNCHANGED << expert_failures, expert, expert_result, llm_lock >>
    /\ UNCHANGED notReasoner

Select_ExpertAnyway(c) ==
    /\ apc[c] = "select"
    /\ LET choice == SelectStrategy(expert_failures, message[c],
                                    fast_result[c].p_mistral)
       IN /\ selected' = [selected EXCEPT ![c] = choice]
          /\ apc' = [apc EXCEPT ![c] = "submit"]
          /\ UNCHANGED << analyze_result, outcome >>
    /\ UNCHANGED << expert_failures, message, fast_result, expert,
                    expert_result, loaded, recorded, llm_lock >>
    /\ UNCHANGED notReasoner

\* _analyze_with_selection steps 2 and 3: select_strategy, and the Fast
\* result returned at once when Fast is selected
Select(c) ==
    /\ apc[c] = "select"
    /\ LET choice == SelectStrategy(expert_failures, message[c],
                                    fast_result[c].p_mistral)
       IN /\ selected' = [selected EXCEPT ![c] = choice]
          /\ IF choice.strategy = "fast"
             THEN /\ analyze_result' = [analyze_result EXCEPT ![c] = fast_result[c]]
                  /\ outcome' = [outcome EXCEPT ![c] = "fast"]
                  /\ apc' = [apc EXCEPT ![c] = "returned"]
             ELSE /\ apc' = [apc EXCEPT ![c] = "submit"]
                  /\ UNCHANGED << analyze_result, outcome >>
    /\ UNCHANGED << expert_failures, message, fast_result, expert,
                    expert_result, loaded, recorded, llm_lock >>
    /\ UNCHANGED notReasoner

\* step 4, lines 343-344: the Expert strategy is submitted to a worker
\* thread of the call's own single-thread executor
SubmitExpert(c) ==
    /\ apc[c] = "submit"
    /\ expert' = [expert EXCEPT ![c] = "started"]
    /\ apc' = [apc EXCEPT ![c] = "wait"]
    /\ UNCHANGED << expert_failures, message, fast_result, selected,
                    expert_result, loaded, recorded, analyze_result, outcome,
                    llm_lock >>
    /\ UNCHANGED notReasoner

\* step 4, lines 369-376: creating the executor or submitting raises, the
\* call goes on to record_expert_failure
SubmitExpertRaises(c) ==
    /\ apc[c] = "submit"
    /\ outcome' = [outcome EXCEPT ![c] = "exception"]
    /\ apc' = [apc EXCEPT ![c] = "record_failure"]
    /\ UNCHANGED << expert_failures, message, fast_result, selected, expert,
                    expert_result, loaded, recorded, analyze_result, llm_lock >>
    /\ UNCHANGED notReasoner

\* Expert thread, ExpertLLMStrategy.analyze -> LLMEngine.generate: the
\* thread takes the LLM lock (a mock-mode engine answers without the lock,
\* which is this step and ExpertReturns with the lock left free)
ExpertAcquire(c) ==
    /\ expert[c] = "started"
    /\ llm_lock = 0
    /\ llm_lock' = c
    /\ expert' = [expert EXCEPT ![c] = "in_model"]
    /\ UNCHANGED reasonerVarsButExpert
    /\ UNCHANGED notReasoner

\* Expert thread: create_completion returns (or raises), the lock is
\* released, the output is parsed and ExpertLLMStrategy.analyze returns
ExpertReturns(c) ==
    /\ expert[c] = "in_model"
    /\ \E r \in ExpertResults :
         expert_result' = [expert_result EXCEPT ![c] = r]
    /\ llm_lock' = 0
    /\ expert' = [expert EXCEPT ![c] = "done"]
    /\ UNCHANGED << expert_failures, apc, message, fast_result, selected,
                    loaded, recorded, analyze_result, outcome >>
    /\ UNCHANGED notReasoner

\* Expert thread: create_completion never returns; the thread keeps the lock
ExpertHangs(c) ==
    /\ expert[c] = "in_model"
    /\ expert' = [expert EXCEPT ![c] = "hung"]
    /\ UNCHANGED llm_lock
    /\ UNCHANGED reasonerVarsButExpert
    /\ UNCHANGED notReasoner

\* lines 348-358: future.result returned in time; record_expert_success
\* stores 0, the with block joins the finished thread, analyze returns the
\* Expert result
ExpertSuccess(c) ==
    /\ apc[c] = "wait"
    /\ expert[c] = "done"
    /\ expert_failures' = 0
    /\ analyze_result' = [analyze_result EXCEPT ![c] = expert_result[c]]
    /\ outcome' = [outcome EXCEPT ![c] = "expert"]
    /\ expert' = [expert EXCEPT ![c] = "none"]
    /\ expert_result' = [expert_result EXCEPT ![c] = NoResult]
    /\ apc' = [apc EXCEPT ![c] = "returned"]
    /\ UNCHANGED << message, fast_result, selected, loaded, recorded,
                    llm_lock >>
    /\ UNCHANGED notReasoner

\* the TimeoutError branch without its record_expert_failure call
ExpertTimeout_NoRecord(c) ==
    /\ apc[c] = "wait"
    /\ expert[c] \in {"started", "in_model", "hung"}
    /\ outcome' = [outcome EXCEPT ![c] = "timeout"]
    /\ analyze_result' = [analyze_result EXCEPT ![c] = fast_result[c]]
    /\ apc' = [apc EXCEPT ![c] = "shutdown"]
    /\ UNCHANGED << expert_failures, message, fast_result, selected, expert,
                    expert_result, loaded, recorded, llm_lock >>
    /\ UNCHANGED notReasoner

\* lines 360-366: future.result(timeout=expert_timeout) raised TimeoutError
\* because the Expert thread had not finished
ExpertTimeout(c) ==
    /\ apc[c] = "wait"
    /\ expert[c] \in {"started", "in_model", "hung"}
    /\ outcome' = [outcome EXCEPT ![c] = "timeout"]
    /\ apc' = [apc EXCEPT ![c] = "record_failure"]
    /\ UNCHANGED << expert_failures, message, fast_result, selected, expert,
                    expert_result, loaded, recorded, analyze_result, llm_lock >>
    /\ UNCHANGED notReasoner

\* record_expert_failure, line 198: self.expert_failures += 1 reads ...
RecordFailureLoad(c) ==
    /\ apc[c] = "record_failure"
    /\ loaded' = [loaded EXCEPT ![c] = expert_failures]
    /\ apc' = [apc EXCEPT ![c] = "record_failure_store"]
    /\ UNCHANGED << expert_failures, message, fast_result, selected, expert,
                    expert_result, recorded, analyze_result, outcome, llm_lock >>
    /\ UNCHANGED notReasoner

\* ... and stores the sum (no lock is held in between); then
\* `return fast_result` (lines 367, 376)
RecordFailureStore(c) ==
    /\ apc[c] = "record_failure_store"
    /\ expert_failures' = loaded[c] + 1
    /\ recorded' = [recorded EXCEPT ![c] = @ + 1]
    /\ analyze_result' = [analyze_result EXCEPT ![c] = fast_result[c]]
    /\ loaded' = [loaded EXCEPT ![c] = 0]
    /\ apc' = [apc EXCEPT ![c] = "shutdown"]
    /\ UNCHANGED << message, fast_result, selected, expert, expert_result,
                    outcome, llm_lock >>
    /\ UNCHANGED notReasoner

\* line 343: leaving `with ThreadPoolExecutor(...) as executor` calls
\* executor.shutdown(wait=True), which joins the Expert thread; only then
\* does analyze return
ExecutorShutdown(c) ==
    /\ apc[c] = "shutdown"
    /\ expert[c] \in {"none", "done"}
    /\ expert' = [expert EXCEPT ![c] = "none"]
    /\ expert_result' = [expert_result EXCEPT ![c] = NoResult]
    /\ apc' = [apc EXCEPT ![c] = "returned"]
    /\ UNCHANGED << expert_failures, message, fast_result, selected, loaded,
                    recorded, analyze_result, outcome, llm_lock >>
    /\ UNCHANGED notReasoner

InitReasoner ==
    /\ expert_failures = 0
    /\ apc = [c \in Callers |-> "idle"]
    /\ message = [c \in Callers |-> NoMessage]
    /\ fast_result = [c \in Callers |-> NoResult]
    /\ selected = [c \in Callers |-> NoSelection]
    /\ expert = [c \in Callers |-> "none"]
    /\ expert_result = [c \in Callers |-> NoResult]
    /\ loaded = [c \in Callers |-> 0]
    /\ recorded = [c \in Callers |-> 0]
    /\ analyze_result = [c \in Callers |-> NoResult]
    /\ outcome = [c \in Callers |-> "unset"]

NextReasoner ==
    \/ \E c \in Callers : Analyze(c)
    \/ \E c \in Callers : Select(c)
    \/ \E c \in Callers : SubmitExpert(c)
    \/ \E c \in Callers : SubmitExpertRaises(c)
    \/ \E c \in Callers : ExpertAcquire(c)
    \/ \E c \in Callers : ExpertReturns(c)
    \/ \E c \in Callers : ExpertHangs(c)
    \/ \E c \in Callers : ExpertSuccess(c)
    \/ \E c \in Callers : ExpertTimeout(c)
    \/ \E c \in Callers : RecordFailureLoad(c)
    \/ \E c \in Callers : RecordFailureStore(c)
    \/ \E c \in Callers : ExecutorShutdown(c)

\* ------------------------------------------------------------------------
\* LLMEngine
\* ------------------------------------------------------------------------
\* what a step of an engine caller leaves alone
notEngine == << councilVars, reasonerVars, busVars, convVars,
           stratVars,
           singletonVars,
           configVars,
           regexVars,
           safetyVars,
           streamVars,
           chatVars,
           breakerVars >>

\* generate / chat line 142 / 153: no lock and no model call in mock mode or
\* without a model handle
UsesModel == ~mock_mode /\ model = "loaded"

\* a thread is executing a completion on the underlying model
OnModel(t) == epc[t] \in {"generate_model", "chat_model", "stream_consume"}

\* load_model: under the lock, a missing model file or a failed load turns
\* mock mode on, a successful load sets the model handle
LoadModel(t) ==
    /\ epc[t] = "idle"
    /\ ~mock_mode
    /\ llm_lock = 0
    /\ model = "none"
    /\ \/ model' = "loaded" /\ loads' = loads + 1 /\ UNCHANGED mock_mode
       \/ mock_mode' = TRUE /\ UNCHANGED << model, loads >>
    /\ UNCHANGED << epc, llm_lock >>
    /\ UNCHANGED notEngine

\* generate(prompt) is called: the placeholder record at once in mock mode,
\* else the thread goes for the lock
Generate(t) ==
    /\ epc[t] = "idle"
    /\ epc' = [epc EXCEPT ![t] = IF UsesModel THEN "generate_lock"
                                 ELSE "mock_returned"]
    /\ UNCHANGED << mock_mode, model, llm_lock >>
    /\ UNCHANGED << loads, notEngine >>

\* chat(messages, stream) is called
Chat(t) ==
    /\ epc[t] = "idle"
    /\ \E stream \in BOOLEAN :
         epc' = [epc EXCEPT ![t] =
                    IF ~UsesModel THEN "mock_returned"
                    ELSE IF stream THEN "stream_lock" ELSE "chat_lock"]
    /\ UNCHANGED << mock_mode, model, llm_lock >>
    /\ UNCHANGED << loads, notEngine >>

\* `with self._lock:` is entered; create_completion / create_chat_completion
\* is called.  With stream=True the call only builds the lazy sequence.
AcquireLock(t) ==
    /\ epc[t] \in {"generate_lock", "chat_lock", "stream_lock"}
    /\ llm_lock = 0
    /\ llm_lock' = t
    /\ epc' = [epc EXCEPT ![t] =
                  CASE epc[t] = "generate_lock" -> "generate_model"
                    [] epc[t] = "chat_lock" -> "chat_model"
                    [] epc[t] = "stream_lock" -> "stream_created"]
    /\ UNCHANGED << mock_mode, model >>
    /\ UNCHANGED << loads, notEngine >>

\* the completion is computed and returned; leaving `with` frees the lock
CompletionReturns(t) ==
    /\ epc[t] \in {"generate_model", "chat_model"}
    /\ llm_lock' = 0
    /\ epc' = [epc EXCEPT ![t] = "returned"]
    /\ UNCHANGED << mock_mode, model >>
    /\ UNCHANGED << loads, notEngine >>

\* chat(stream=True) returns the lazy delta sequence; leaving `with` frees
\* the lock before any delta has been computed
StreamReturned(t) ==
    /\ epc[t] = "stream_created"
    /\ llm_lock' = 0
    /\ epc' = [epc EXCEPT ![t] = "stream_pending"]
    /\ UNCHANGED << mock_mode, model >>
    /\ UNCHANGED << loads, notEngine >>

\* the caller iterates the sequence (token_generator in
\* _generate_response_native): the model computes the deltas in the
\* caller's thread
StreamConsume(t) ==
    /\ epc[t] = "stream_pending"
    /\ epc' = [epc EXCEPT ![t] = "stream_consume"]
    /\ UNCHANGED << mock_mode, model, llm_lock >>
    /\ UNCHANGED << loads, notEngine >>

\* the sequence is exhausted
StreamEnds(t) ==
    /\ epc[t] = "stream_consume"
    /\ epc' = [epc EXCEPT ![t] = "returned"]
    /\ UNCHANGED << mock_mode, model, llm_lock >>
    /\ UNCHANGED << loads, notEngine >>

\* the caller goes on and may call the engine again
CallerContinues(t) ==
    /\ epc[t] \in {"returned", "mock_returned"}
    /\ epc' = [epc EXCEPT ![t] = "idle"]
    /\ UNCHANGED << mock_mode, model, llm_lock >>
    /\ UNCHANGED << loads, notEngine >>

\* the engine with its model loaded and no caller
EngineAtRest ==
    /\ mock_mode = FALSE
    /\ model = "loaded"
    /\ epc = [t \in EngineThreads |-> "idle"]
    /\ loads = 1

\* LLMEngine.__init__: mock_mode = not LLAMA_AVAILABLE, no model handle yet
InitEngine ==
    /\ mock_mode \in BOOLEAN
    /\ model = "none"
    /\ epc = [t \in EngineThreads |-> "idle"]
    /\ loads = 0

NextEngine ==
    \/ \E t \in EngineThreads : LoadModel(t)
    \/ \E t \in EngineThreads : Generate(t)
    \/ \E t \in EngineThreads : Chat(t)
    \/ \E t \in EngineThreads : AcquireLock(t)
    \/ \E t \in EngineThreads : CompletionReturns(t)
    \/ \E t \in EngineThreads : StreamReturned(t)
    \/ \E t \in EngineThreads : StreamConsume(t)
    \/ \E t \in EngineThreads : StreamEnds(t)
    \/ \E t \in EngineThreads : CallerContinues(t)

\* ------------------------------------------------------------------------
\* LLMEngine(): __new__, __init__, get_llm_engine and load_model, step by
\* step, for threads that ask for the engine concurrently
\* ------------------------------------------------------------------------
\* what a step of the construction leaves alone
notSingleton ==
    << councilVars, reasonerVars, busVars, convVars, stratVars,
           configVars,
           regexVars,
           safetyVars,
           streamVars,
           chatVars,
           breakerVars >>

\* a constructed engine (the state every other specification starts from)
EngineConstructed ==
    /\ instances = 1
    /\ initialized = "true"
    /\ llama_available = ~mock_mode
    /\ model_file_exists = TRUE

\* a thread calls LLMEngine() or get_llm_engine()
CallEngine(t) ==
    /\ epc[t] = "start"
    /\ epc' = [epc EXCEPT ![t] = "new_check"]
    /\ UNCHANGED << mock_mode, model, loads, llm_lock, singletonVars >>
    /\ UNCHANGED notSingleton

\* __new__ line 46: `if cls._instance is None`, read without the lock
NewCheck(t) ==
    /\ epc[t] = "new_check"
    /\ epc' = [epc EXCEPT ![t] = IF instances = 0 THEN "new_lock"
                                 ELSE "init_check"]
    /\ UNCHANGED << mock_mode, model, loads, llm_lock, singletonVars >>
    /\ UNCHANGED notSingleton

\* line 47: `with cls._lock`
NewLock(t) ==
    /\ epc[t] = "new_lock"
    /\ llm_lock = 0
    /\ llm_lock' = t
    /\ epc' = [epc EXCEPT ![t] = "new_locked"]
    /\ UNCHANGED << mock_mode, model, loads, singletonVars >>
    /\ UNCHANGED notSingleton

\* lines 48-49: the second test under the lock, and the object is created
\* and stored in cls._instance
NewCreate(t) ==
    /\ epc[t] = "new_locked"
    /\ IF instances = 0
       THEN /\ instances' = instances + 1
            /\ epc' = [epc EXCEPT ![t] = "new_flag"]
            /\ UNCHANGED llm_lock
       ELSE /\ llm_lock' = 0
            /\ epc' = [epc EXCEPT ![t] = "init_check"]
            /\ UNCHANGED instances
    /\ UNCHANGED << mock_mode, model, loads, initialized, llama_available,
                    model_file_exists >>
    /\ UNCHANGED notSingleton

\* line 50: `cls._instance._initialized = False`; the lock is released
NewFlag(t) ==
    /\ epc[t] = "new_flag"
    /\ initialized' = "false"
    /\ llm_lock' = 0
    /\ epc' = [epc EXCEPT ![t] = "init_check"]
    /\ UNCHANGED << mock_mode, model, loads, instances, llama_available,
                    model_file_exists >>
    /\ UNCHANGED notSingleton

\* __init__ lines 54-55: `if self._initialized: return`, with no lock.  The
\* attribute does not exist yet between lines 49 and 50 (AttributeError).
InitCheck(t) ==
    /\ epc[t] = "init_check"
    /\ epc' = [epc EXCEPT ![t] =
                  CASE initialized = "unset" -> "raised"
                    [] initialized = "true" -> "constructed"
                    [] initialized = "false" -> "init_model"]
    /\ UNCHANGED << mock_mode, model, loads, llm_lock, singletonVars >>
    /\ UNCHANGED notSingleton

\* line 57: `self.model = None`
InitModel(t) ==
    /\ epc[t] = "init_model"
    /\ model' = "none"
    /\ epc' = [epc EXCEPT ![t] = "init_mock_mode"]
    /\ UNCHANGED << mock_mode, loads, llm_lock, singletonVars >>
    /\ UNCHANGED notSingleton

\* line 59: `self.mock_mode = not LLAMA_AVAILABLE`
InitMockMode(t) ==
    /\ epc[t] = "init_mock_mode"
    /\ mock_mode' = ~llama_available
    /\ epc' = [epc EXCEPT ![t] = "init_flag"]
    /\ UNCHANGED << model, loads, llm_lock, singletonVars >>
    /\ UNCHANGED notSingleton

\* lines 60-61: _load_config, then `self._initialized = True`
InitFlag(t) ==
    /\ epc[t] = "init_flag"
    /\ initialized' = "true"
    /\ epc' = [epc EXCEPT ![t] = "constructed"]
    /\ UNCHANGED << mock_mode, model, loads, llm_lock, instances,
                    llama_available, model_file_exists >>
    /\ UNCHANGED notSingleton

\* LLMEngine() was called directly: the caller has its engine
EngineReturned(t) ==
    /\ epc[t] = "constructed"
    /\ epc' = [epc EXCEPT ![t] = "idle"]
    /\ UNCHANGED << mock_mode, model, loads, llm_lock, singletonVars >>
    /\ UNCHANGED notSingleton

\* get_llm_engine line 180: `if not engine.model and not engine.mock_mode`
AccessorCheck(t) ==
    /\ epc[t] = "constructed"
    /\ epc' = [epc EXCEPT ![t] =
                  IF model = "none" /\ ~mock_mode THEN "load_check"
                  ELSE "idle"]
    /\ UNCHANGED << mock_mode, model, loads, llm_lock, singletonVars >>
    /\ UNCHANGED notSingleton

\* load_model lines 86-88: nothing to do in mock mode
LoadCheck(t) ==
    /\ epc[t] = "load_check"
    /\ epc' = [epc EXCEPT ![t] = IF mock_mode THEN "idle" ELSE "load_lock"]
    /\ UNCHANGED << mock_mode, model, loads, llm_lock, singletonVars >>
    /\ UNCHANGED notSingleton

\* line 90: `with self._lock`
LoadLock(t) ==
    /\ epc[t] = "load_lock"
    /\ llm_lock = 0
    /\ llm_lock' = t
    /\ epc' = [epc EXCEPT ![t] = "load_locked"]
    /\ UNCHANGED << mock_mode, model, loads, singletonVars >>
    /\ UNCHANGED notSingleton

\* lines 91-97 (force_reload false): a model handle is present, or the
\* model file is missing, or Llama(...) is called
LoadStart(t) ==
    /\ epc[t] = "load_locked"
    /\ IF model # "none"
       THEN /\ llm_lock' = 0
            /\ epc' = [epc EXCEPT ![t] = "idle"]
            /\ UNCHANGED mock_mode
       ELSE IF ~model_file_exists
       THEN /\ mock_mode' = TRUE
            /\ llm_lock' = 0
            /\ epc' = [epc EXCEPT ![t] = "idle"]
       ELSE /\ epc' = [epc EXCEPT ![t] = "loading"]
            /\ UNCHANGED << mock_mode, llm_lock >>
    /\ UNCHANGED << model, loads, singletonVars >>
    /\ UNCHANGED notSingleton

\* lines 121-135: Llama(...) returns and the handle is stored, or it raises,
\* mock mode is turned on and get_llm_engine swallows the exception
LoadEnds(t) ==
    /\ epc[t] = "loading"
    /\ \/ model' = "loaded" /\ loads' = loads + 1 /\ UNCHANGED mock_mode
       \/ mock_mode' = TRUE /\ UNCHANGED << model, loads >>
    /\ llm_lock' = 0
    /\ epc' = [epc EXCEPT ![t] = "idle"]
    /\ UNCHANGED singletonVars
    /\ UNCHANGED notSingleton

\* the process before any engine was asked for
InitSingleton ==
    /\ instances = 0
    /\ initialized = "unset"
    /\ llama_available \in BOOLEAN
    /\ model_file_exists \in BOOLEAN
    /\ mock_mode = FALSE
    /\ model = "none"
    /\ loads = 0
    /\ epc = [t \in EngineThreads |-> "start"]

NextSingleton ==
    \/ \E t \in EngineThreads : CallEngine(t)
    \/ \E t \in EngineThreads : NewCheck(t)
    \/ \E t \in EngineThreads : NewLock(t)
    \/ \E t \in EngineThreads : NewCreate(t)
    \/ \E t \in EngineThreads : NewFlag(t)
    \/ \E t \in EngineThreads : InitCheck(t)
    \/ \E t \in EngineThreads : InitModel(t)
    \/ \E t \in EngineThreads : InitMockMode(t)
    \/ \E t \in EngineThreads : InitFlag(t)
    \/ \E t \in EngineThreads : EngineReturned(t)
    \/ \E t \in EngineThreads : AccessorCheck(t)
    \/ \E t \in EngineThreads : LoadCheck(t)
    \/ \E t \in EngineThreads : LoadLock(t)
    \/ \E t \in EngineThreads : LoadStart(t)
    \/ \E t \in EngineThreads : LoadEnds(t)
    \/ \E t \in EngineThreads : Generate(t)
    \/ \E t \in EngineThreads : Chat(t)
    \/ \E t \in EngineThreads : AcquireLock(t)
    \/ \E t \in EngineThreads : CompletionReturns(t)
    \/ \E t \in EngineThreads : StreamReturned(t)
    \/ \E t \in EngineThreads : StreamConsume(t)
    \/ \E t \in EngineThreads : StreamEnds(t)
    \/ \E t \in EngineThreads : CallerContinues(t)

\* ------------------------------------------------------------------------
\* ConsensusOrchestrator (legacy path) and its CrisisEventBus
\* ------------------------------------------------------------------------
\* what a step of the orchestrator or the bus leaves alone
notBus == << councilVars, reasonerVars, llm_lock, engineVars, convVars,
           stratVars,
           singletonVars,
           configVars,
           regexVars,
           safetyVars,
           streamVars,
           chatVars,
           breakerVars >>

\* consensus_orchestrator.py:455, the regex safety floor of the legacy path
LegacyRegexFloor == 95

\* a subscribed callable: whether calling it raises, and whether it has a
\* __name__ (functions and bound methods have one; functools.partial objects
\* and instances with __call__ have none)
Observers == [ raises : BOOLEAN, has_name : BOOLEAN ]

\* LayerScore records of the layers (score in hundredths)
LayerScores == { [ score |-> x ] : x \in {0, 60, 95, 100} }

\* _calculate_consensus_score, in units of 1/10000 (round(score, 4))
CalculateConsensusScore(config, regex, semantic, mistral) ==
    IF mistral = None
    THEN (config.w_regex + config.w_mistral) * regex.score
         + config.w_semantic * semantic.score
    ELSE config.w_regex * regex.score
         + config.w_semantic * semantic.score
         + config.w_mistral * mistral.score

\* _determine_risk_level (final_score in units of 1/10000)
DetermineRiskLevel(config, final, regex) ==
    IF regex.score >= LegacyRegexFloor THEN "CRISIS"
    ELSE IF final >= config.crisis_threshold * 100 THEN "CRISIS"
    ELSE IF final >= config.caution_threshold * 100 THEN "CAUTION"
    ELSE "SAFE"

\* CrisisEventBus.subscribe
Subscribe(o) ==
    /\ bpc # "publishing"
    /\ Len(observers) < MaxObservers
    /\ observers' = Append(observers, o)
    /\ UNCHANGED << notified, bpc, opc, consensus_result, published >>
    /\ UNCHANGED notBus

\* ConsensusOrchestrator.analyze up to the publish call: the layers run, the
\* score is fused, the ConsensusResult is built; a CRISIS result is published
OrchestratorAnalyze ==
    /\ opc \in {"idle", "returned", "raised"}
    /\ notified' = << >>
    /\ \/ \E regex \in LayerScores, semantic \in LayerScores,
             mistral \in LayerScores \cup {None} :
            LET final == CalculateConsensusScore(ConsensusConfig, regex,
                                                 semantic, mistral)
                level == DetermineRiskLevel(ConsensusConfig, final, regex)
            IN /\ consensus_result' =
                     [ risk_level |-> level, final_score |-> final,
                       timeout_occurred |-> (mistral = None) ]
               /\ IF level = "CRISIS"
                  THEN /\ opc' = "publish"
                       /\ bpc' = "publishing"
                       /\ published' = 1
                  ELSE /\ opc' = "returned"
                       /\ bpc' = "idle"
                       /\ published' = 0
       \/ \* _run_parallel_analysis raises: a safety layer failed, or
          \* total_timeout elapsed
          /\ consensus_result' = None
          /\ opc' = "raised"
          /\ bpc' = "idle"
          /\ published' = 0
    /\ UNCHANGED observers
    /\ UNCHANGED notBus

\* CrisisEventBus.publish, one turn of its loop: the next observer is
\* called; when it raises, the handler logs observer.__name__, and the
\* AttributeError of a callable without __name__ leaves publish
NotifyObserver ==
    /\ bpc = "publishing"
    /\ Len(notified) < Len(observers)
    /\ LET i == Len(notified) + 1 IN
         /\ notified' = Append(notified, i)
         /\ IF observers[i].raises /\ ~observers[i].has_name
            THEN bpc' = "raised" /\ opc' = "raised"
            ELSE UNCHANGED << bpc, opc >>
    /\ UNCHANGED << observers, consensus_result, published >>
    /\ UNCHANGED notBus

\* CrisisEventBus.publish: the loop is over, publish and analyze return
PublishReturns ==
    /\ bpc = "publishing"
    /\ Len(notified) = Len(observers)
    /\ bpc' = "returned"
    /\ opc' = "returned"
    /\ UNCHANGED << observers, notified, consensus_result, published >>
    /\ UNCHANGED notBus

\* CrisisEventBus.__init__, and no analyze call yet
InitBus ==
    /\ observers = << >>
    /\ notified = << >>
    /\ bpc = "idle"
    /\ opc = "idle"
    /\ consensus_result = None
    /\ published = 0

NextOrchestrator ==
    \/ \E o \in Observers : Subscribe(o)
    \/ OrchestratorAnalyze
    \/ NotifyObserver
    \/ PublishReturns

\* ------------------------------------------------------------------------
\* ConsensusOrchestrator's circuit breaker around the Mistral layer
\* ------------------------------------------------------------------------
\* what a step of the Mistral layer or its breaker leaves alone
notBreaker == << councilVars, reasonerVars, llm_lock, engineVars, busVars,
               convVars, stratVars, singletonVars, configVars, regexVars,
               safetyVars, streamVars, chatVars >>

\* consensus_config.py:38, failures before the breaker opens
circuit_breaker_threshold == 5

\* consensus_config.py:39, seconds before a retry
circuit_breaker_timeout == 30

\* the latest time of the model's clock
MaxClock == 33

\* an exception object in the list gather returns
MistralException == [ exception |-> TRUE ]

\* CircuitBreaker.should_allow_request: the answer, and is_open after it
ShouldAllowRequest ==
    IF ~is_open THEN [ allow |-> TRUE, is_open |-> FALSE ]
    ELSE IF /\ last_failure_time # None
            /\ now - last_failure_time.at > circuit_breaker_timeout
    THEN [ allow |-> TRUE, is_open |-> FALSE ]
    ELSE [ allow |-> FALSE, is_open |-> TRUE ]

\* CircuitBreaker.record_failure
RecordFailure ==
    /\ failure_count' = failure_count + 1
    /\ last_failure_time' = [ at |-> now ]
    /\ is_open' = (is_open \/ failure_count + 1 >= circuit_breaker_threshold)

\* CircuitBreaker.record_success
RecordSuccess ==
    /\ failure_count' = 0
    /\ is_open' = FALSE
    /\ UNCHANGED last_failure_time

\* analyze enters _run_parallel_analysis; _run_mistral_layer asks the
\* breaker, and returns None without a call when the request is refused
MistralLayerStarts ==
    /\ mpc \in {"idle", "returned", "raised"}
    /\ LET answer == ShouldAllowRequest IN
         /\ is_open' = answer.is_open
         /\ IF answer.allow
            THEN /\ mpc' = "await_mistral"
                 /\ mistral_calls' = 1
                 /\ mistral_score' = None
            ELSE /\ mpc' = "gathered"
                 /\ mistral_calls' = 0
                 /\ mistral_score' = None
    /\ UNCHANGED << failure_count, last_failure_time, now, failed_in_a_row >>
    /\ UNCHANGED notBreaker

\* mistral.analyze returns within mistral_timeout: a LayerScore
MistralLayerReturns ==
    /\ mpc = "await_mistral"
    /\ \E score \in LayerScores : mistral_score' = score
    /\ mpc' = "gathered"
    /\ failed_in_a_row' = 0
    /\ UNCHANGED << failure_count, last_failure_time, is_open, now,
                    mistral_calls >>
    /\ UNCHANGED notBreaker

\* asyncio.wait_for raises TimeoutError: the failure is recorded and the
\* layer returns None
MistralLayerTimesOut ==
    /\ mpc = "await_mistral"
    /\ RecordFailure
    /\ mistral_score' = None
    /\ mpc' = "gathered"
    /\ failed_in_a_row' = IF failed_in_a_row < circuit_breaker_threshold
                        THEN failed_in_a_row + 1
                        ELSE failed_in_a_row
    /\ UNCHANGED << now, mistral_calls >>
    /\ UNCHANGED notBreaker

\* mistral.analyze raises: the exception leaves _run_mistral_layer and
\* gather returns it in place of the layer's result
MistralLayerRaises ==
    /\ mpc = "await_mistral"
    /\ mistral_score' = MistralException
    /\ mpc' = "gathered"
    /\ failed_in_a_row' = IF failed_in_a_row < circuit_breaker_threshold
                        THEN failed_in_a_row + 1
                        ELSE failed_in_a_row
    /\ UNCHANGED << failure_count, last_failure_time, is_open, now,
                    mistral_calls >>
    /\ UNCHANGED notBreaker

\* gather returned: an exception in the Mistral slot is a recorded failure
\* and becomes None, anything else in it is a recorded success
GatherReturns ==
    /\ mpc = "gathered"
    /\ IF mistral_score = MistralException
       THEN /\ mistral_score' = None
            /\ RecordFailure
       ELSE /\ RecordSuccess
            /\ UNCHANGED mistral_score
    /\ mpc' = "returned"
    /\ UNCHANGED << now, mistral_calls, failed_in_a_row >>
    /\ UNCHANGED notBreaker

\* a safety layer raised, or total_timeout elapsed: analyze raises
GatherRaises ==
    /\ mpc = "gathered"
    /\ mpc' = "raised"
    /\ UNCHANGED << failure_count, last_failure_time, is_open, now,
                    mistral_score, mistral_calls, failed_in_a_row >>
    /\ UNCHANGED notBreaker

\* time passes
ClockAdvances ==
    /\ \E d \in {1, circuit_breaker_timeout} :
          /\ now + d <= MaxClock
          /\ now' = now + d
    /\ UNCHANGED << failure_count, last_failure_time, is_open, mpc,
                    mistral_score, mistral_calls, failed_in_a_row >>
    /\ UNCHANGED notBreaker

\* CircuitBreaker.__init__, and no analyze call yet
InitBreaker ==
    /\ failure_count = 0
    /\ last_failure_time = None
    /\ is_open = FALSE
    /\ now = 0
    /\ mpc = "idle"
    /\ mistral_score = None
    /\ mistral_calls = 0
    /\ failed_in_a_row = 0

NextBreaker ==
    \/ MistralLayerStarts
    \/ MistralLayerReturns
    \/ MistralLayerTimesOut
    \/ MistralLayerRaises
    \/ GatherReturns
    \/ GatherRaises
    \/ ClockAdvances

\* ------------------------------------------------------------------------
\* ConversationAgent.generate_response and its response validator
\* ------------------------------------------------------------------------
\* what a step of the conversation agent leaves alone
notConversation ==
    << councilVars, reasonerVars, llm_lock, engineVars, busVars,
           stratVars,
           singletonVars,
           configVars,
           regexVars,
           safetyVars,
           streamVars,
           chatVars,
           breakerVars >>

\* A text is modelled by the set of the phrases below that occur in its
\* lower-cased form (no phrase is a substring of another one).
Phrases == { "suicide", "suicidal", "kill myself", "self-harm", "exam",
             "parent" }

Texts == SUBSET Phrases

\* _validate_response_safety lines 488-491: the student keywords
StudentCrisisTokens ==
    { "suicide", "kill myself", "end my life", "want to die", "hurt myself",
      "cut myself" }

\* _validate_response_safety lines 494-498: the response keywords
ResponseCrisisTokens ==
    { "suicide", "suicidal", "kill yourself", "end your life",
      "hurt yourself", "self-harm" }

\* _generate_safe_fallback_response: the words of the academic branch and
\* of the parental branch
AcademicWords == { "exam", "test", "grade", "homework", "assignment" }
ParentWords == { "parent", "mom", "dad", "father", "mother" }

\* any(keyword in text.lower() for keyword in keywords)
Mentions(text, keywords) == text \cap keywords # {}

\* the three hard-coded replies of _generate_safe_fallback_response
AcademicFallback == { "exam", "parent" }
ParentalFallback == { "parent" }
GenericFallback == {}

GenerateSafeFallbackResponse_ParentsFirst(student) ==
    IF Mentions(student, ParentWords) THEN ParentalFallback
    ELSE IF Mentions(student, AcademicWords) THEN AcademicFallback
    ELSE GenericFallback

\* _generate_safe_fallback_response
GenerateSafeFallbackResponse(student) ==
    IF Mentions(student, AcademicWords) THEN AcademicFallback
    ELSE IF Mentions(student, ParentWords) THEN ParentalFallback
    ELSE GenericFallback

\* a validator that returns every reply as it is
ValidateResponseSafety_Unchecked(response, student) == response

\* _validate_response_safety
ValidateResponseSafety(response, student) ==
    IF Mentions(response, ResponseCrisisTokens)
         /\ ~Mentions(student, StudentCrisisTokens)
    THEN GenerateSafeFallbackResponse(student)
    ELSE response

\* ConversationContext.risk_level
RiskLevels == { "SAFE", "CAUTION", "CRISIS" }

\* the hard-coded crisis protocol text: 988, the Crisis Text Line and the
\* school counselor
CrisisProtocol == { "988", "crisis text line", "counselor" }

\* the branch generate_response takes: use_native_llama, else openai_client,
\* else is_mock_mode, else the fallback text
ResponseModes == { "native_mistral", "openai", "mock", "fallback" }

\* generate_response is called
GenerateResponse ==
    /\ cpc \in {"idle", "returned", "raised"}
    /\ student_message' \in Texts
    /\ context_risk_level' \in RiskLevels
    /\ response_mode' \in ResponseModes
    /\ candidate' = {}
    /\ response_text' = {}
    /\ cpc' = "generate"
    /\ UNCHANGED notConversation

\* generate_response lines 417-447: the candidate reply of the branch; the
\* model or the OpenAI client may return any text, or raise
GenerateCandidate ==
    /\ cpc = "generate"
    /\ \/ /\ response_mode \in {"native_mistral", "openai"}
          /\ candidate' \in Texts
          /\ cpc' = "validate"
       \/ /\ response_mode \in {"mock", "fallback"}
          /\ candidate' = {}
          /\ cpc' = "validate"
       \/ \* lines 464-466: RuntimeError
          /\ response_mode \in {"native_mistral", "openai"}
          /\ cpc' = "raised"
          /\ UNCHANGED candidate
    /\ UNCHANGED << student_message, context_risk_level, response_mode,
                    response_text >>
    /\ UNCHANGED notConversation

\* generate_response lines 449-462: the safety check, then the return
ValidateAndReturn ==
    /\ cpc = "validate"
    /\ response_text' = ValidateResponseSafety(candidate, student_message)
    /\ cpc' = "returned"
    /\ UNCHANGED << student_message, context_risk_level, response_mode,
                    candidate >>
    /\ UNCHANGED notConversation

\* no generate_response call yet
InitConversation ==
    /\ student_message = {}
    /\ context_risk_level = "SAFE"
    /\ response_mode = "fallback"
    /\ candidate = {}
    /\ response_text = {}
    /\ cpc = "idle"

NextConversation ==
    \/ GenerateResponse
    \/ GenerateCandidate
    \/ ValidateAndReturn

\* ------------------------------------------------------------------------
\* ReasoningStrategy.analyze: FastEmotionStrategy and ExpertLLMStrategy
\* ------------------------------------------------------------------------
\* what a strategy call leaves alone
notStrategies ==
    << councilVars, reasonerVars, llm_lock, engineVars, busVars, convVars,
           singletonVars,
           configVars,
           regexVars,
           safetyVars,
           streamVars,
           chatVars,
           breakerVars >>

\* What the emotion classifier did in FastEmotionStrategy.analyze: the
\* transformers library may be missing, the classifier may raise, or it
\* gives emotions that lead to the heuristic score p_score (hundredths).
FastCalls ==
    [ strategy : {"fast"}, transformers_available : BOOLEAN,
      classifier_raises : BOOLEAN, p_score : {0, 51, 80} ]

\* The text of a completion, by what _parse_output looks at: whether braces
\* enclose something and json.loads accepts it, the three fields read from
\* the object, and whether the text contains "caution".
ModelTexts ==
    [ json : {"absent", "invalid", "object"},
      risk_level : {"SAFE", "CRISIS", "unknown", "missing", "not_a_string"},
      risk_score : {"missing", "not_a_number", "0.1", "0.95"},
      markers : {"missing", "list", "not_iterable"},
      mentions_caution : BOOLEAN ]

\* the placeholder text of LLMEngine._mock_response (llm_engine.py line 160)
MockResponseText ==
    [ json |-> "absent", risk_level |-> "missing", risk_score |-> "missing",
      markers |-> "missing", mentions_caution |-> FALSE ]

\* What engine.generate did in ExpertLLMStrategy.analyze: it raised, it
\* returned a record without choices[0].text, or it returned a text.
ExpertCalls ==
    [ strategy : {"expert"}, generate : {"raises", "no_text", "text"},
      text : ModelTexts ]

NoStrategyCall == [ strategy |-> "none" ]

\* the ReasoningResult of the except branches (strategies.py lines 134-143
\* and 194-203)
ErrorFallback ==
    [ p_mistral |-> 0, risk_level |-> "safe", clinical_markers |-> {},
      model_used |-> "error" ]

\* FastEmotionStrategy.analyze
FastStrategyAnalyze(call) ==
    IF ~call.transformers_available
    THEN [ p_mistral |-> 0, risk_level |-> "safe", clinical_markers |-> {},
           model_used |-> "none" ]
    ELSE IF call.classifier_raises
    THEN ErrorFallback
    ELSE [ p_mistral |-> FastEmotion(call.p_score).p_mistral,
           risk_level |-> FastEmotion(call.p_score).risk_level,
           clinical_markers |-> {},
           model_used |-> FastEmotion(call.p_score).model_used ]

\* _parse_output's try block ends with its return statement: braces were
\* found, json.loads accepted them, .upper(), the loop over the markers and
\* float() did not raise
Parsed(text) ==
    /\ text.json = "object"
    /\ text.risk_level # "not_a_string"
    /\ text.markers # "not_iterable"
    /\ text.risk_score # "not_a_number"

\* ExpertLLMStrategy._parse_output
ParseOutput(text) ==
    IF Parsed(text)
    THEN [ risk_level |-> IF text.risk_level = "CRISIS" THEN "crisis"
                          ELSE "safe",
           risk_score |-> CASE text.risk_score = "0.1" -> 10
                            [] text.risk_score = "0.95" -> 95
                            [] OTHER -> 0,
           markers |-> IF text.markers = "list" THEN {"ai_detected"}
                       ELSE {} ]
    ELSE [ risk_level |-> "safe",
           risk_score |-> IF text.mentions_caution THEN 50 ELSE 10,
           markers |-> {} ]

\* ExpertLLMStrategy.analyze
ExpertStrategyAnalyze(call) ==
    IF call.generate # "text"
    THEN ErrorFallback
    ELSE [ p_mistral |-> ParseOutput(call.text).risk_score,
           risk_level |-> ParseOutput(call.text).risk_level,
           clinical_markers |-> ParseOutput(call.text).markers,
           model_used |-> "mistral-7b-instruct-v0.2" ]

\* fast_strategy.analyze(ctx) is called and returns
FastAnalyze ==
    /\ \E call \in FastCalls :
         /\ strategy_call' = call
         /\ strategy_result' = FastStrategyAnalyze(call)
    /\ UNCHANGED notStrategies

\* expert_strategy.analyze(ctx) is called and returns
ExpertAnalyze ==
    /\ \E call \in ExpertCalls :
         /\ strategy_call' = call
         /\ strategy_result' = ExpertStrategyAnalyze(call)
    /\ UNCHANGED notStrategies

InitStrategies ==
    /\ strategy_call = NoStrategyCall
    /\ strategy_result = ErrorFallback

NextStrategies ==
    \/ FastAnalyze
    \/ ExpertAnalyze

\* ------------------------------------------------------------------------
\* ConsensusConfig.__post_init__
\* ------------------------------------------------------------------------
\* what a construction leaves alone
notConfig ==
    << councilVars, reasonerVars, llm_lock, engineVars, busVars, convVars,
       stratVars, singletonVars,
           regexVars,
           safetyVars,
           streamVars,
           chatVars,
           breakerVars >>

\* Field values given to the constructor: weights and thresholds in
\* hundredths, timeouts in seconds.  The weights reach sums of 0.98, 0.99,
\* 1.00, 1.01 and 1.02, a sum inside the tolerance with a negative weight,
\* and sums of 1.00 in which the weights of the layers are zero.
ConfigCalls ==
    [ w_regex : {-10, 0, 40}, w_semantic : {0, 20, 21}, w_mistral : {0, 30},
      w_history : {8, 9, 10, 11, 12, 60, 70, 100},
      crisis_threshold : {-5, 0, 65, 90, 100, 105},
      caution_threshold : {-5, 0, 65, 90, 100},
      mistral_timeout : {-1, 0, 3},
      total_timeout : {-1, 0, 5} ]

ValueError == [ raised |-> "ValueError" ]

PostInitRaises_NoThresholdOrder(c) ==
    \/ ~( 99 <= c.w_regex + c.w_semantic + c.w_mistral + c.w_history
          /\ c.w_regex + c.w_semantic + c.w_mistral + c.w_history <= 101 )
    \/ \E w \in { c.w_regex, c.w_semantic, c.w_mistral, c.w_history } : w < 0
    \/ ~(0 <= c.crisis_threshold /\ c.crisis_threshold <= 100)
    \/ ~(0 <= c.caution_threshold /\ c.caution_threshold <= 100)
    \/ c.mistral_timeout <= 0
    \/ c.total_timeout <= 0

\* __post_init__ raises ValueError (lines 43-73)
PostInitRaises(c) ==
    \/ ~( 99 <= c.w_regex + c.w_semantic + c.w_mistral + c.w_history
          /\ c.w_regex + c.w_semantic + c.w_mistral + c.w_history <= 101 )
    \/ \E w \in { c.w_regex, c.w_semantic, c.w_mistral, c.w_history } : w < 0
    \/ ~(0 <= c.crisis_threshold /\ c.crisis_threshold <= 100)
    \/ ~(0 <= c.caution_threshold /\ c.caution_threshold <= 100)
    \/ c.crisis_threshold <= c.caution_threshold
    \/ c.mistral_timeout <= 0
    \/ c.total_timeout <= 0

\* ConsensusConfig(...): the frozen dataclass stores the fields as given and
\* then runs __post_init__
NewConsensusConfig(c) == IF PostInitRaises(c) THEN ValueError ELSE c

\* ConsensusConfig(...) is called
ConstructConfig ==
    /\ config_call = None
    /\ \E c \in ConfigCalls :
         /\ config_call' = c
         /\ config_result' = NewConsensusConfig(c)
    /\ UNCHANGED notConfig

\* the caller is done with the object or the exception
DiscardConfig ==
    /\ config_call # None
    /\ config_call' = None
    /\ config_result' = None
    /\ UNCHANGED notConfig

InitConfig ==
    /\ config_call = None
    /\ config_result = None

NextConfig ==
    \/ ConstructConfig
    \/ DiscardConfig

\* ------------------------------------------------------------------------
\* RegexDetectionStrategy
\* ------------------------------------------------------------------------
\* what a call of the regex strategy leaves alone
notRegex ==
    << councilVars, reasonerVars, llm_lock, engineVars, busVars, convVars,
       stratVars, singletonVars, configVars,
           safetyVars,
           streamVars,
           chatVars,
           breakerVars >>

\* A text is a sequence of characters.  \b of RE2 tells word characters
\* ([0-9A-Za-z_]) from all others; these are the word characters used here.
WordChars ==
    { "a", "b", "c", "d", "e", "f", "g", "h", "i", "j", "k", "l", "m", "n",
      "o", "p", "q", "r", "s", "t", "u", "v", "w", "x", "y", "z",
      "D", "E", "I" }

\* str.lower() on one character, and the case folding of (?i)
Lower(c) ==
    CASE c = "D" -> "d"
      [] c = "E" -> "e"
      [] c = "I" -> "i"
      [] OTHER -> c

\* The pattern catalog given to __init__ (self.patterns['crisis_keywords']):
\* the categories, phrases and confidences of the examples in
\* regex_strategy.py (lines 86-89, 122, 180-185) and of its tests;
\* confidences in hundredths.
Categories == { "suicidal_ideation", "self_harm" }

Catalog ==
    [ suicidal_ideation |->
        [ patterns |-> { << "w", "a", "n", "t", " ", "t", "o", " ", "d", "i", "e" >>,
                        << "k", "i", "l", "l", " ", "m", "y", "s", "e", "l", "f" >>,
                        << "d", "i", "e" >> },
          confidence |-> 95 ],
      self_harm |->
        [ patterns |-> { << "h", "u", "r", "t", " ", "m", "y", "s", "e", "l", "f" >>,
                        << "c", "u", "t", " ", "m", "y", "s", "e", "l", "f" >> },
          confidence |-> 85 ] ]

\* messages: a phrase or another word, with something before and after it
RegexPrefixes ==
    { << >>,
      << "I", " " >>,
      << "s", "t", "u" >>,
      << "i", " ", "w", "a", "n", "t", " ", "t", "o", " ", "d", "i", "e", " ", "a", "n", "d", " " >>,
      << "h", "u", "r", "t", " ", "m", "y", "s", "e", "l", "f", " " >> }

RegexWords ==
    { << "w", "a", "n", "t", " ", "t", "o", " ", "d", "i", "e" >>,
      << "d", "i", "e" >>,
      << "D", "I", "E" >>,
      << "h", "u", "r", "t", " ", "m", "y", "s", "e", "l", "f" >>,
      << "c", "u", "t", " ", "m", "y", "s", "e", "l", "f" >>,
      << "s", "a", "d" >> }

RegexSuffixes ==
    { << >>,
      << "d" >>,
      << "!" >>,
      << " ", "l", "o", "l" >>,
      << "t" >> }

RegexMessages ==
    { pre \o word \o post :
        pre \in RegexPrefixes, word \in RegexWords, post \in RegexSuffixes }

\* \b at position k of text, between text[k] and text[k+1]: exactly one of
\* the two is a word character (the ends of the text count as non-word)
WordBoundary(text, k) ==
    LET before == k >= 1 /\ text[k] \in WordChars
        after == k < Len(text) /\ text[k + 1] \in WordChars
    IN before # after

MatchesAt_NoBoundary(phrase, text, i) ==
    /\ i + Len(phrase) - 1 <= Len(text)
    /\ \A j \in 1..Len(phrase) : Lower(text[i + j - 1]) = Lower(phrase[j])

\* \b(phrase)\b matches the lower-cased text at position i, ignoring case
MatchesAt(phrase, text, i) ==
    /\ i + Len(phrase) - 1 <= Len(text)
    /\ \A j \in 1..Len(phrase) : Lower(text[i + j - 1]) = Lower(phrase[j])
    /\ WordBoundary(text, i - 1)
    /\ WordBoundary(text, i + Len(phrase) - 1)

\* config['pattern'].search(message_lower) of a category finds a match: the
\* pattern is (?i)\b(p1|p2|...)\b over the escaped phrases (line 143)
Search(category, text) ==
    \E phrase \in Catalog[category].patterns :
       \E i \in 1..Len(text) : MatchesAt(phrase, text, i)

\* the categories whose pattern matches
MatchedPatterns(text) == { c \in Categories : Search(c, text) }

MaxConfidence_TakesLowest(matched) ==
    IF matched = {} THEN 0
    ELSE Catalog[CHOOSE c \in matched :
                    \A d \in matched :
                       Catalog[d].confidence >= Catalog[c].confidence].confidence

\* max_confidence after the loop of lines 205-209, starting from 0.0
MaxConfidence(matched) ==
    IF matched = {} THEN 0
    ELSE Catalog[CHOOSE c \in matched :
                    \A d \in matched :
                       Catalog[c].confidence >= Catalog[d].confidence].confidence

\* RegexDetectionStrategy.analyze
RegexAnalyze(text) ==
    [ score |-> MaxConfidence(MatchedPatterns(text)),
      matches |-> MatchedPatterns(text) ]

\* analyze(message) is called and returns
AnalyzeMessage ==
    /\ \E text \in RegexMessages :
         /\ regex_message' = text
         /\ regex_result' = RegexAnalyze(text)
    /\ UNCHANGED notRegex

InitRegex ==
    /\ regex_message = << >>
    /\ regex_result = [ score |-> 0, matches |-> {} ]

NextRegex == AnalyzeMessage

\* ------------------------------------------------------------------------
\* SafetyService
\* ------------------------------------------------------------------------
notSafety ==
    << reasonerVars, llm_lock, engineVars, busVars, convVars, stratVars,
       singletonVars, configVars, regexVars,
           streamVars,
           chatVars,
           breakerVars >>

\* the phrase stands in the lower-cased text from position i on
StartsAt(phrase, text, i) ==
    /\ i >= 1
    /\ i + Len(phrase) - 1 <= Len(text)
    /\ \A j \in 1..Len(phrase) : Lower(text[i + j - 1]) = phrase[j]

\* `indicator in message_lower`
Contains(phrase, text) == \E i \in 1..Len(text) : StartsAt(phrase, text, i)

\* SarcasmFilterStrategy.HYPERBOLE_PATTERNS, each pattern as
\* \b(head).{0,gap}(tail), closed by a second \b where the pattern has one
HyperbolePatterns ==
    {
      \* Academic stress hyperbole, line 89
      [ heads |-> { << "h", "o", "m", "e", "w", "o", "r", "k" >>,
                     << "t", "e", "s", "t" >>,
                     << "e", "x", "a", "m" >>,
                     << "q", "u", "i", "z" >> },
        gap |-> 20,
        tails |-> { << "k", "i", "l", "l", "i", "n", "g" >>,
                     << "m", "u", "r", "d", "e", "r" >>,
                     << "d", "e", "a", "t", "h" >> },
        closed |-> FALSE ],
      \* Boredom hyperbole, line 92
      [ heads |-> { << "d", "y", "i", "n", "g", " ", "o", "f", " " >> },
        gap |-> 0,
        tails |-> { << "b", "o", "r", "e", "d", "o", "m" >>,
                     << "l", "a", "u", "g", "h", "t", "e", "r" >> },
        closed |-> FALSE ],
      \* Parental/authority hyperbole, line 95
      [ heads |-> { << "p", "a", "r", "e", "n", "t", "s" >>,
                     << "m", "o", "m" >>,
                     << "d", "a", "d" >>,
                     << "m", "o", "t", "h", "e", "r" >>,
                     << "f", "a", "t", "h", "e", "r" >>,
                     << "t", "e", "a", "c", "h", "e", "r" >> },
        gap |-> 20,
        tails |-> { << "k", "i", "l", "l" >>,
                     << "m", "u", "r", "d", "e", "r" >> },
        closed |-> FALSE ],
      \* Tiredness hyperbole, lines 98-99
      [ heads |-> { << "d", "e", "a", "d", " ", "t", "i", "r", "e", "d" >> },
        gap |-> 0,
        tails |-> { << >> },
        closed |-> TRUE ],
      [ heads |-> { << "s", "o", " ", "d", "e", "a", "d" >>,
                     << "r", "e", "a", "l", "l", "y", " ", "d", "e", "a", "d" >>,
                     << "l", "i", "t", "e", "r", "a", "l", "l", "y", " ", "d", "e", "a", "d" >> },
        gap |-> 0,
        tails |-> { << >> },
        closed |-> TRUE ],
      \* Positive usage, lines 102-103
      [ heads |-> { << "k", "i", "l", "l", "i", "n", "g", " ", "i", "t" >> },
        gap |-> 0,
        tails |-> { << >> },
        closed |-> TRUE ],
      [ heads |-> { << "m", "u", "r", "d", "e", "r", "e", "d", " ", "t", "h", "e", " " >>,
                     << "m", "u", "r", "d", "e", "r", "e", "d", " ", "t", "h", "a", "t", " " >> },
        gap |-> 0,
        tails |-> { << "t", "e", "s", "t" >>,
                     << "e", "x", "a", "m" >> },
        closed |-> FALSE ] }

\* hyperbole_regex matches the text from position i on
HyperboleAt(p, text, i) ==
    /\ WordBoundary(text, i - 1)
    /\ \E head \in p.heads :
         /\ StartsAt(head, text, i)
         /\ \E gap \in 0..p.gap : \E tail \in p.tails :
              LET last == i + Len(head) + gap + Len(tail) - 1 IN
              /\ StartsAt(tail, text, i + Len(head) + gap)
              /\ p.closed => WordBoundary(text, last)

\* the positive sentiment indicators of lines 208-219 (the three emoji are
\* characters no message here contains)
PositiveIndicators ==
    { << "l", "o", "l" >>,
      << "h", "a", "h", "a" >>,
      << "j", "k" >>,
      << "j", "u", "s", "t", " ", "k", "i", "d", "d", "i", "n", "g" >>,
      << "j", "o", "k", "i", "n", "g" >>,
      << "l", "m", "a", "o" >>,
      << "r", "o", "f", "l" >> }

\* SarcasmFilterStrategy.analyze
SarcasmAnalyze(text) ==
    IF \E p \in HyperbolePatterns : \E i \in 1..Len(text) :
          HyperboleAt(p, text, i)
    THEN [ score |-> 90, matches |-> { "hyperbole" } ]
    ELSE IF \E indicator \in PositiveIndicators : Contains(indicator, text)
    THEN [ score |-> 80, matches |-> { "positive_sentiment" } ]
    ELSE [ score |-> 0, matches |-> {} ]

\* what SemanticDetectionStrategy.analyze returns: nothing below the
\* similarity threshold, else similarity * confidence and the category
SemanticOutcomes ==
    { [ score |-> 0, matches |-> {} ],
      [ score |-> 60, matches |-> { "semantic:self_harm" } ],
      [ score |-> 90, matches |-> { "semantic:suicidal_ideation" } ] }

\* the messages given to the service: explicit phrases with and without a
\* laugh, hyperbole of every pattern, and words that only look like either
SafetyMessages ==
    { << "I", " ", "w", "a", "n", "t", " ", "t", "o", " ", "k", "i", "l", "l", " ", "m", "y", "s", "e", "l", "f", " ", "l", "o", "l" >>,
      << "i", " ", "w", "a", "n", "t", " ", "t", "o", " ", "d", "i", "e" >>,
      << "i", " ", "d", "i", "e", " ", "j", "k" >>,
      << "h", "u", "r", "t", " ", "m", "y", "s", "e", "l", "f", " ", "h", "a", "h", "a" >>,
      << "t", "h", "i", "s", " ", "h", "o", "m", "e", "w", "o", "r", "k", " ", "i", "s", " ", "k", "i", "l", "l", "i", "n", "g", " ", "m", "e" >>,
      << "m", "y", " ", "e", "x", "a", "m", " ", "i", "s", " ", "d", "e", "a", "t", "h", " ", "i", " ", "w", "a", "n", "t", " ", "t", "o", " ", "d", "i", "e" >>,
      << "m", "o", "m", " ", "w", "o", "u", "l", "d", " ", "k", "i", "l", "l", " ", "m", "e" >>,
      << "d", "y", "i", "n", "g", " ", "o", "f", " ", "l", "a", "u", "g", "h", "t", "e", "r" >>,
      << "d", "e", "a", "d", " ", "t", "i", "r", "e", "d" >>,
      << "i", " ", "a", "m", " ", "s", "o", " ", "d", "e", "a", "d" >>,
      << "s", "o", " ", "d", "e", "a", "d", "l", "y" >>,
      << "k", "i", "l", "l", "i", "n", "g", " ", "i", "t" >>,
      << "m", "u", "r", "d", "e", "r", "e", "d", " ", "t", "h", "a", "t", " ", "t", "e", "s", "t" >>,
      << "l", "o", "l", "l", "i", "p", "o", "p" >>,
      << "s", "o", " ", "s", "a", "d" >> }

\* p_sarcasm above which the semantic score is attenuated
SarcasmThreshold == 70

\* p_regex from which the record is a crisis
CrisisFloor == 90

\* SafetyService.analyze: the three layers, the semantic score cut to a
\* tenth when p_sarcasm > 0.7, is_crisis from the regex score alone
SafetyServiceAnalyze(text, semantic) ==
    LET regex == RegexAnalyze(text)
        sarcasm == SarcasmAnalyze(text)
        filtered == sarcasm.score > SarcasmThreshold
    IN [ p_regex |-> regex.score,
         p_semantic |-> IF filtered THEN semantic.score \div 10
                        ELSE semantic.score,
         p_sarcasm |-> sarcasm.score,
         sarcasm_filtered |-> filtered,
         matched_patterns |-> regex.matches \cup semantic.matches,
         is_crisis |-> regex.score >= CrisisFloor ]

\* the fields of a SafetyResult the Council reads
CouncilFields(result) ==
    [ p_regex |-> result.p_regex,
      p_semantic |-> result.p_semantic,
      sarcasm_filtered |-> result.sarcasm_filtered,
      matched_patterns |-> result.matched_patterns ]

\* _reflex_node with the record self.safety.analyze(message) returns
ReflexNodeOfService ==
    /\ \E text \in SafetyMessages : \E semantic \in SemanticOutcomes :
         /\ ReflexNodeOn(CouncilFields(SafetyServiceAnalyze(text, semantic)))
         /\ service_call' = [ message |-> text, semantic |-> semantic ]
         /\ service_result' = SafetyServiceAnalyze(text, semantic)
    /\ UNCHANGED notSafety

\* analyze_fast step 1 with the record self.safety.analyze(message) returns
FastSafetyOfService ==
    /\ \E text \in SafetyMessages : \E semantic \in SemanticOutcomes :
         /\ FastSafetyOn(CouncilFields(SafetyServiceAnalyze(text, semantic)))
         /\ service_call' = [ message |-> text, semantic |-> semantic ]
         /\ service_result' = SafetyServiceAnalyze(text, semantic)
    /\ UNCHANGED notSafety

InitSafety ==
    /\ service_call = None
    /\ service_result = None

NextSafety ==
    \/ Run
    \/ ReflexNodeOfService
    \/ ReflexNodeRaises
    \/ ClinicalNodeSubmit
    \/ ClinicalNode
    \/ ClinicalNodeRaises
    \/ EmpathyNode
    \/ AnalyzeFast
    \/ FastSafetyOfService
    \/ FastMistralSubmit
    \/ FastMistral
    \/ FastMistralTimeout
    \/ FastConsensus
    \/ AbandonedCallFinishes

\* ------------------------------------------------------------------------
\* chat_stream.generate_stream (POST /chat/stream)
\* ------------------------------------------------------------------------
notStream ==
    << reasonerVars, llm_lock, engineVars, busVars, convVars, stratVars,
       singletonVars, configVars, regexVars, safetyVars,
           chatVars,
           breakerVars >>

\* a server-sent event: its type and the fields the client tells events
\* apart by (layer and timeout of a risk_score, is_crisis of a verdict)
Event(type, layer, timeout, crisis) ==
    [ type |-> type, layer |-> layer, timeout |-> timeout,
      is_crisis |-> crisis ]

Thinking == Event("thinking", "none", FALSE, FALSE)

\* STEP 3: the three risk_score events; the mistral one carries
\* timeout = True exactly when analysis_result has no mistral_result
RegexScore == Event("risk_score", "regex", FALSE, FALSE)

SemanticScore == Event("risk_score", "semantic", FALSE, FALSE)

MistralScore(result) ==
    Event("risk_score", "mistral", result.mistral_result = None, FALSE)

\* STEP 4
ConsensusVerdict(result) ==
    Event("consensus_verdict", "none", FALSE, result.is_crisis)

\* STEP 5
CrisisAlert == Event("crisis_alert", "none", FALSE, FALSE)

Token == Event("token", "none", FALSE, FALSE)

\* STEP 9
Done(result) == Event("done", "none", FALSE, result.is_crisis)

Error == Event("error", "none", FALSE, FALSE)

AfterVerdict_NoAlert(crisis) == "step6"

\* where the generator goes after the verdict: `if is_crisis:` of STEP 5
AfterVerdict(crisis) == IF crisis THEN "crisis_alert" ELSE "step6"

\* a request arrives and the generator starts: the history lookup
StreamRequest ==
    /\ spc = "closed"
    /\ spc' = "history"
    /\ skip_response' \in BOOLEAN
    /\ analysis_result' = None
    /\ words' = 0
    /\ events' = << >>
    /\ conversation_saved' = FALSE
    /\ crisis_event_saved' = FALSE
    /\ UNCHANGED councilVars
    /\ UNCHANGED notStream

\* STEP 1: yield the first thinking event
StreamThinking ==
    /\ spc = "history"
    /\ events' = Append(events, Thinking)
    /\ spc' = "call_fast"
    /\ UNCHANGED << skip_response, analysis_result, words >>
    /\ UNCHANGED councilVars
    /\ UNCHANGED << conversation_saved, crisis_event_saved >>
    /\ UNCHANGED notStream

\* STEP 2: council_graph.analyze_fast is called and awaited
StreamCallsAnalyzeFast ==
    /\ spc = "call_fast"
    /\ AnalyzeFastCalled
    /\ spc' = "await_fast"
    /\ UNCHANGED << skip_response, analysis_result, words, events >>
    /\ UNCHANGED << conversation_saved, crisis_event_saved >>
    /\ UNCHANGED notStream

\* analyze_fast returns its record; STEP 3 yields the regex score
\* (safety_result is never None in a record analyze_fast returns)
StreamRegexScore ==
    /\ spc = "await_fast"
    /\ mode = "fast" /\ pc = "done"
    /\ safety_result # None
    /\ analysis_result' = [ safety_result |-> safety_result,
                            mistral_result |-> mistral_result,
                            risk_level |-> risk_level,
                            is_crisis |-> is_crisis ]
    /\ events' = Append(events, RegexScore)
    /\ spc' = "semantic"
    /\ UNCHANGED << skip_response, words >>
    /\ UNCHANGED councilVars
    /\ UNCHANGED << conversation_saved, crisis_event_saved >>
    /\ UNCHANGED notStream

\* safety.analyze raises inside analyze_fast, and analyze_fast with it
StreamAnalyzeFastRaises ==
    /\ spc = "await_fast"
    /\ mode = "fast" /\ pc = "fast_safety"
    /\ WorkerFree
    /\ pc' = "raised"
    /\ spc' = "raised"
    /\ UNCHANGED << mode, safety_result, mistral_result, matched_patterns,
                    risk_level, is_crisis, final_score, final_response,
                    trace_steps, clinical, late, hung >>
    /\ UNCHANGED << skip_response, analysis_result, words, events >>
    /\ UNCHANGED << conversation_saved, crisis_event_saved >>
    /\ UNCHANGED notStream

StreamSemanticScore ==
    /\ spc = "semantic"
    /\ events' = Append(events, SemanticScore)
    /\ spc' = "mistral"
    /\ UNCHANGED << skip_response, analysis_result, words >>
    /\ UNCHANGED councilVars
    /\ UNCHANGED << conversation_saved, crisis_event_saved >>
    /\ UNCHANGED notStream

StreamMistralScore ==
    /\ spc = "mistral"
    /\ events' = Append(events, MistralScore(analysis_result))
    /\ spc' = "verdict"
    /\ UNCHANGED << skip_response, analysis_result, words >>
    /\ UNCHANGED councilVars
    /\ UNCHANGED << conversation_saved, crisis_event_saved >>
    /\ UNCHANGED notStream

\* STEP 4: yield the consensus verdict
StreamVerdict ==
    /\ spc = "verdict"
    /\ events' = Append(events, ConsensusVerdict(analysis_result))
    /\ spc' = AfterVerdict(analysis_result.is_crisis)
    /\ UNCHANGED << skip_response, analysis_result, words >>
    /\ UNCHANGED councilVars
    /\ UNCHANGED << conversation_saved, crisis_event_saved >>
    /\ UNCHANGED notStream

\* STEP 5: yield the crisis alert
StreamCrisisAlert ==
    /\ spc = "crisis_alert"
    /\ events' = Append(events, CrisisAlert)
    /\ spc' = "step6"
    /\ UNCHANGED << skip_response, analysis_result, words >>
    /\ UNCHANGED councilVars
    /\ UNCHANGED << conversation_saved, crisis_event_saved >>
    /\ UNCHANGED notStream

\* STEP 6 with request.skip_response: no response is generated
StreamSkipsResponse ==
    /\ spc = "step6"
    /\ skip_response
    /\ spc' = "save"
    /\ UNCHANGED << skip_response, analysis_result, words, events >>
    /\ UNCHANGED councilVars
    /\ UNCHANGED << conversation_saved, crisis_event_saved >>
    /\ UNCHANGED notStream

\* STEP 6: yield the second thinking event, then generate_response is
\* called and awaited
StreamGenerates ==
    /\ spc = "step6"
    /\ ~skip_response
    /\ events' = Append(events, Thinking)
    /\ spc' = "generate_response"
    /\ UNCHANGED << skip_response, analysis_result, words >>
    /\ UNCHANGED councilVars
    /\ UNCHANGED << conversation_saved, crisis_event_saved >>
    /\ UNCHANGED notStream

\* generate_response returns response_text; STEP 7 splits it into words
StreamResponseReturns ==
    /\ spc = "generate_response"
    /\ words' \in 0..MaxWords
    /\ spc' = "tokens"
    /\ UNCHANGED << skip_response, analysis_result, events >>
    /\ UNCHANGED councilVars
    /\ UNCHANGED << conversation_saved, crisis_event_saved >>
    /\ UNCHANGED notStream

\* STEP 7: yield one word
StreamToken ==
    /\ spc = "tokens"
    /\ words > 0
    /\ events' = Append(events, Token)
    /\ words' = words - 1
    /\ UNCHANGED << spc, skip_response, analysis_result >>
    /\ UNCHANGED councilVars
    /\ UNCHANGED << conversation_saved, crisis_event_saved >>
    /\ UNCHANGED notStream

\* the loop of STEP 7 ends
StreamTokensEnd ==
    /\ spc = "tokens"
    /\ words = 0
    /\ spc' = "save"
    /\ UNCHANGED << skip_response, analysis_result, words, events >>
    /\ UNCHANGED councilVars
    /\ UNCHANGED << conversation_saved, crisis_event_saved >>
    /\ UNCHANGED notStream

\* STEP 8: the Conversation row is added and committed
StreamSavesConversation ==
    /\ spc = "save"
    /\ conversation_saved' = TRUE
    /\ spc' = "crisis_event"
    /\ UNCHANGED << skip_response, analysis_result, words, events,
                    crisis_event_saved >>
    /\ UNCHANGED councilVars
    /\ UNCHANGED notStream

\* STEP 8, `if is_crisis:`: the CrisisEvent row is added and committed
StreamSavesCrisisEvent ==
    /\ spc = "crisis_event"
    /\ crisis_event_saved' = analysis_result.is_crisis
    /\ spc' = "done"
    /\ UNCHANGED << skip_response, analysis_result, words, events,
                    conversation_saved >>
    /\ UNCHANGED councilVars
    /\ UNCHANGED notStream

\* STEP 9: yield the completion event
StreamDone ==
    /\ spc = "done"
    /\ events' = Append(events, Done(analysis_result))
    /\ spc' = "closed"
    /\ UNCHANGED << skip_response, analysis_result, words >>
    /\ UNCHANGED councilVars
    /\ UNCHANGED << conversation_saved, crisis_event_saved >>
    /\ UNCHANGED notStream

\* the history lookup, generate_response or the database raises
StreamRaises ==
    /\ spc \in {"history", "generate_response", "save", "crisis_event"}
    /\ spc' = "raised"
    /\ UNCHANGED << skip_response, analysis_result, words, events >>
    /\ UNCHANGED councilVars
    /\ UNCHANGED << conversation_saved, crisis_event_saved >>
    /\ UNCHANGED notStream

\* except Exception: yield the error event, and the stream ends
StreamError ==
    /\ spc = "raised"
    /\ events' = Append(events, Error)
    /\ spc' = "closed"
    /\ UNCHANGED << skip_response, analysis_result, words >>
    /\ UNCHANGED councilVars
    /\ UNCHANGED << conversation_saved, crisis_event_saved >>
    /\ UNCHANGED notStream

InitStream ==
    /\ spc = "closed"
    /\ skip_response = FALSE
    /\ analysis_result = None
    /\ words = 0
    /\ events = << >>
    /\ conversation_saved = FALSE
    /\ crisis_event_saved = FALSE

NextStream ==
    \/ StreamRequest
    \/ StreamThinking
    \/ StreamCallsAnalyzeFast
    \/ FastSafety
    \/ FastMistralSubmit
    \/ FastMistral
    \/ FastMistralTimeout
    \/ FastConsensus
    \/ AbandonedCallFinishes
    \/ StreamAnalyzeFastRaises
    \/ StreamRegexScore
    \/ StreamSemanticScore
    \/ StreamMistralScore
    \/ StreamVerdict
    \/ StreamCrisisAlert
    \/ StreamSkipsResponse
    \/ StreamGenerates
    \/ StreamResponseReturns
    \/ StreamToken
    \/ StreamTokensEnd
    \/ StreamSavesConversation
    \/ StreamSavesCrisisEvent
    \/ StreamDone
    \/ StreamRaises
    \/ StreamError

\* ------------------------------------------------------------------------
\* main.chat (POST /chat), and both endpoints side by side
\* ------------------------------------------------------------------------
notChat ==
    << reasonerVars, llm_lock, engineVars, busVars, convVars, stratVars,
       singletonVars, configVars, regexVars, safetyVars,
           breakerVars >>

\* _get_service_unavailable_response(): the static block with 988, the
\* Crisis Text Line and the online chat
ServiceUnavailableResponse == "crisis_resources"

\* ChatResponse(response=response_text, ...), status 200
ChatResponse == [ status |-> 200, body |-> "final_response" ]

\* HTTPException(status_code=500, detail=str(e))
HTTPException == [ status |-> 500, body |-> "error_detail" ]

\* a request arrives while no stream is open (nothing is left of the
\* generator of an earlier response): profile, history and themes are read
\* from the database
ChatRequest ==
    /\ chat_pc \in {"idle", "replied"}
    /\ spc = "closed"
    /\ chat_pc' = "history"
    /\ chat_reply' = None
    /\ spc' = "closed"
    /\ skip_response' = FALSE
    /\ analysis_result' = None
    /\ words' = 0
    /\ events' = << >>
    /\ conversation_saved' = FALSE
    /\ crisis_event_saved' = FALSE
    /\ UNCHANGED councilVars
    /\ UNCHANGED notChat

\* council_graph.run is called and awaited
ChatCallsRun ==
    /\ chat_pc = "history"
    /\ RunCalled
    /\ chat_pc' = "await_run"
    /\ UNCHANGED chat_reply
    /\ UNCHANGED streamVars
    /\ UNCHANGED notChat

\* run returned graph_result
ChatRunReturns ==
    /\ chat_pc = "await_run"
    /\ mode = "run" /\ pc = "done"
    /\ chat_pc' = "save"
    /\ UNCHANGED chat_reply
    /\ UNCHANGED councilVars
    /\ UNCHANGED streamVars
    /\ UNCHANGED notChat

\* the conversation (and the crisis event) are saved and the handler returns
ChatResponds ==
    /\ chat_pc = "save"
    /\ chat_reply' = ChatResponse
    /\ chat_pc' = "replied"
    /\ UNCHANGED councilVars
    /\ UNCHANGED streamVars
    /\ UNCHANGED notChat

\* except Exception, lines 517-524: run raised, or the database did
ChatFails ==
    /\ \/ chat_pc \in {"history", "save"}
       \/ /\ chat_pc = "await_run"
          /\ mode = "run"
          /\ pc \in {"raised", "raised_reflex", "raised_clinical"}
    /\ chat_reply' = HTTPException
    /\ chat_pc' = "replied"
    /\ UNCHANGED councilVars
    /\ UNCHANGED streamVars
    /\ UNCHANGED notChat

\* a /chat/stream request arrives while no /chat request is being handled
StreamRequestArrives ==
    /\ chat_pc \in {"idle", "replied"}
    /\ StreamRequest

InitChat ==
    /\ chat_pc = "idle"
    /\ chat_reply = None

NextEndpoints ==
    \/ ChatRequest
    \/ ChatCallsRun
    \/ ReflexNode
    \/ ReflexNodeRaises
    \/ ClinicalNodeSubmit
    \/ ClinicalNode
    \/ ClinicalNodeRaises
    \/ EmpathyNode
    \/ ChatRunReturns
    \/ ChatResponds
    \/ ChatFails
    \/ StreamRequestArrives
    \/ StreamThinking
    \/ StreamCallsAnalyzeFast
    \/ FastSafety
    \/ FastMistralSubmit
    \/ FastMistral
    \/ FastMistralTimeout
    \/ FastConsensus
    \/ AbandonedCallFinishes
    \/ StreamAnalyzeFastRaises
    \/ StreamRegexScore
    \/ StreamSemanticScore
    \/ StreamMistralScore
    \/ StreamVerdict
    \/ StreamCrisisAlert
    \/ StreamSkipsResponse
    \/ StreamGenerates
    \/ StreamResponseReturns
    \/ StreamToken
    \/ StreamTokensEnd
    \/ StreamSavesConversation
    \/ StreamSavesCrisisEvent
    \/ StreamDone
    \/ StreamRaises
    \/ StreamError

\* ------------------------------------------------------------------------
\* Specifications
\* ------------------------------------------------------------------------
InitCouncil ==
    /\ mode = "idle"
    /\ pc = "idle"
    /\ safety_result = None
    /\ mistral_result = None
    /\ matched_patterns = {}
    /\ risk_level = "SAFE"
    /\ is_crisis = FALSE
    /\ final_score = [num |-> 0, den |-> 1]
    /\ final_response = "absent"
    /\ trace_steps = << >>
    /\ clinical = "none"
    /\ late = 0
    /\ hung = 0

Init ==
    /\ InitCouncil
    /\ InitReasoner
    /\ llm_lock = 0
    /\ EngineAtRest
    /\ InitBus
    /\ InitConversation
    /\ InitStrategies
    /\ EngineConstructed
    /\ InitConfig
    /\ InitRegex
    /\ InitSafety
    /\ InitStream
    /\ InitChat
    /\ InitBreaker

Next ==
    \/ Run
    \/ ReflexNode
    \/ ReflexNodeRaises
    \/ ClinicalNodeSubmit
    \/ ClinicalNode
    \/ ClinicalNodeRaises
    \/ EmpathyNode
    \/ AnalyzeFast
    \/ FastSafety
    \/ FastMistralSubmit
    \/ FastMistral
    \/ FastMistralTimeout
    \/ FastConsensus
    \/ AbandonedCallFinishes

Spec == Init /\ [][Next]_vars

\* LLMEngine from its construction on, with the threads that call it
InitSpecEngine ==
    /\ InitCouncil
    /\ InitReasoner
    /\ llm_lock = 0
    /\ InitEngine
    /\ InitBus
    /\ InitConversation
    /\ InitStrategies
    /\ EngineConstructed
    /\ InitConfig
    /\ InitRegex
    /\ InitSafety
    /\ InitStream
    /\ InitChat
    /\ InitBreaker

SpecEngine == InitSpecEngine /\ [][NextEngine]_vars

\* threads that ask for the engine concurrently while none exists yet, and
\* then call it
InitSpecSingleton ==
    /\ InitCouncil
    /\ InitReasoner
    /\ llm_lock = 0
    /\ InitSingleton
    /\ InitBus
    /\ InitConversation
    /\ InitStrategies
    /\ InitConfig
    /\ InitRegex
    /\ InitSafety
    /\ InitStream
    /\ InitChat
    /\ InitBreaker

SpecSingleton == InitSpecSingleton /\ [][NextSingleton]_vars

\* ConsensusOrchestrator.analyze calls, one at a time, and subscriptions
SpecOrchestrator == Init /\ [][NextOrchestrator]_vars

\* ConversationAgent.generate_response calls, one at a time
SpecConversation == Init /\ [][NextConversation]_vars

\* the circuit breaker of ConsensusOrchestrator around its Mistral layer
SpecBreaker == Init /\ [][NextBreaker]_vars

\* constructions of ConsensusConfig objects, one at a time
SpecConfig == Init /\ [][NextConfig]_vars

\* single calls of RegexDetectionStrategy.analyze
SpecRegex == Init /\ [][NextRegex]_vars

\* triages whose safety record is what SafetyService.analyze returns for a
\* message
SpecSafety == Init /\ [][NextSafety]_vars

\* /chat/stream responses, one at a time
SpecStream == Init /\ [][NextStream]_vars

\* The generator of a request that has started is resumed by the event loop
\* until it ends: every await of it returns or raises, analyze_fast's wait
\* for the Clinical call is bounded, and the client keeps reading.  Whether
\* a further request arrives is left open.
StreamProgress ==
    \/ StreamThinking
    \/ StreamCallsAnalyzeFast
    \/ FastSafety
    \/ FastMistralSubmit
    \/ FastMistralTimeout
    \/ FastConsensus
    \/ StreamRegexScore
    \/ StreamSemanticScore
    \/ StreamMistralScore
    \/ StreamVerdict
    \/ StreamCrisisAlert
    \/ StreamSkipsResponse
    \/ StreamGenerates
    \/ StreamResponseReturns
    \/ StreamToken
    \/ StreamTokensEnd
    \/ StreamSavesConversation
    \/ StreamSavesCrisisEvent
    \/ StreamDone
    \/ StreamRaises
    \/ StreamError

FairSpecStream == SpecStream /\ WF_vars(StreamProgress)

\* /chat and /chat/stream requests, one at a time
SpecEndpoints == Init /\ [][NextEndpoints]_vars

\* single calls of FastEmotionStrategy.analyze and ExpertLLMStrategy.analyze
SpecStrategies == Init /\ [][NextStrategies]_vars

\* concurrent MistralReasoner.analyze calls sharing one StrategySelector and
\* one loaded LLMEngine
SpecReasoner == Init /\ [][NextReasoner]_vars

\* Every thread keeps running: a caller takes its next step, the wait for
\* the Expert either gets the result or times out, an Expert thread gets the
\* lock when it is free and returns unless it hangs.  New calls keep
\* arriving.
FairSpecReasoner ==
    /\ SpecReasoner
    /\ \A c \in Callers :
          /\ WF_vars(Analyze(c))
          /\ WF_vars(Select(c))
          /\ WF_vars(SubmitExpert(c))
          /\ WF_vars(ExpertAcquire(c))
          /\ WF_vars(ExpertReturns(c))
          /\ WF_vars(ExpertSuccess(c) \/ ExpertTimeout(c))
          /\ WF_vars(RecordFailureLoad(c))
          /\ WF_vars(RecordFailureStore(c))
          /\ WF_vars(ExecutorShutdown(c))

\* The event loop resumes a triage whose awaited call or timer is ready, an
\* executor thread takes queued work, and a running call that is not hanging
\* returns.  Calls that hang never return, and whether a new request arrives
\* is left open.
FairSpec ==
    /\ Spec
    /\ WF_vars(ReflexNode)
    /\ WF_vars(ClinicalNodeSubmit)
    /\ WF_vars(ClinicalNode)
    /\ WF_vars(EmpathyNode)
    /\ WF_vars(FastSafety)
    /\ WF_vars(FastMistralSubmit)
    /\ WF_vars(FastMistralTimeout)
    /\ WF_vars(FastConsensus)
    /\ WF_vars(AbandonedCallFinishes)

\* ------------------------------------------------------------------------
\* Properties of CouncilGraph (Spec, FairSpec)
\* ------------------------------------------------------------------------
\* a triage has returned its result to the caller
Returned == pc = "done"

\* C1: every result returned by run or analyze_fast for a message whose
\* p_regex is at least 0.90 has risk_level CRISIS and is_crisis true,
\* whatever the other scores, the Clinical result and the fused score are.
C1_SafetyFloor ==
    (Returned /\ safety_result.p_regex >= RegexFloor)
        => (risk_level = "CRISIS" /\ is_crisis)

\* the floor decided: analyze_fast returned for p_regex >= 0.90 after a
\* Clinical timeout, with a fused score below the crisis threshold
C1_Witness ==
    /\ Returned /\ mode = "fast"
    /\ safety_result.p_regex >= RegexFloor
    /\ mistral_result = None
    /\ ~ScoreAtLeast(final_score, ConsensusConfig.crisis_threshold)
    /\ risk_level = "CRISIS"

\* C2: a run in which the Clinical node returned a CRISIS result ends with
\* risk_level CRISIS and is_crisis true, also when the fused score is below
\* the crisis threshold and p_regex is below 0.90.
C2_ClinicalCrisisForcesCrisis ==
    (Returned /\ mode = "run" /\ mistral_result # None
        /\ mistral_result.risk_level = "crisis")
        => (risk_level = "CRISIS" /\ is_crisis)

\* a run where only the Clinical result makes the decision CRISIS
C2_Witness ==
    /\ Returned /\ mode = "run"
    /\ mistral_result # None
    /\ mistral_result.risk_level = "crisis"
    /\ safety_result.p_regex < RegexFloor
    /\ ~ScoreAtLeast(final_score, ConsensusConfig.crisis_threshold)
    /\ is_crisis

\* the route the Reflex result of the current run selects
RouteTaken ==
    RouteAfterReflex(safety_result.p_regex >= RegexFloor, safety_result)

\* C3: in every run the nodes execute in the order Reflex, Clinical (only on
\* the red or yellow route), Empathy, each at most once, and the run ends
\* after Empathy: at every position of the run trace_steps is the matching
\* prefix, and the final trace is one of the two complete sequences.
C3_NodeOrder ==
    mode = "run" =>
      /\ pc \in {"reflex_agent", "clinical_agent", "clinical_await",
                 "empathy_agent", "done", "raised", "raised_reflex",
                 "raised_clinical"}
      /\ pc \in {"reflex_agent", "raised_reflex"} => trace_steps = << >>
      /\ pc \in {"clinical_agent", "clinical_await", "raised_clinical"} =>
            /\ trace_steps = << "reflex_checked" >>
            /\ RouteTaken \in {"red_path", "yellow_path"}
      /\ pc \in {"empathy_agent", "raised"} =>
            \/ trace_steps = << "reflex_checked" >>
                  /\ RouteTaken = "green_path"
            \/ trace_steps = << "reflex_checked", "clinical_reviewed" >>
                  /\ RouteTaken \in {"red_path", "yellow_path"}
      /\ pc = "done" =>
            \/ trace_steps = << "reflex_checked", "response_generated" >>
                  /\ RouteTaken = "green_path"
            \/ trace_steps = << "reflex_checked", "clinical_reviewed",
                                "response_generated" >>
                  /\ RouteTaken \in {"red_path", "yellow_path"}

\* a run on the yellow route that went through all three nodes
C3_Witness ==
    /\ Returned /\ mode = "run"
    /\ RouteTaken = "yellow_path"
    /\ Len(trace_steps) = 3

\* C15: final_score is the weighted sum with the weights normalised over
\* the contributing layers only: (R*w_regex + S*w_semantic + M*w_mistral) /
\* (w_regex + w_semantic + w_mistral) with a Clinical result, (R*w_regex +
\* S*w_semantic) / (w_regex + w_semantic) without one; w_history enters
\* neither.  (Equality of fractions, by cross-multiplication.)
C15_NormalisedWeightedSum ==
    Returned =>
       IF mistral_result # None
       THEN final_score.num * (40 + 20 + 30)
              = (safety_result.p_regex * 40 + safety_result.p_semantic * 20
                 + mistral_result.p_mistral * 30) * final_score.den
       ELSE final_score.num * (40 + 20)
              = (safety_result.p_regex * 40 + safety_result.p_semantic * 20)
                * final_score.den

\* a run with all three layers and a non-trivial score
C15_Witness ==
    /\ Returned /\ mode = "run"
    /\ mistral_result # None
    /\ mistral_result.p_mistral = 50
    /\ safety_result.p_regex = 31
    /\ safety_result.p_semantic = 100

FloorOrClinicalCrisis ==
    \/ safety_result.p_regex >= 90
    \/ mistral_result # None /\ mistral_result.risk_level = "crisis"

\* C16: when neither the regex floor nor a Clinical CRISIS applies, the risk
\* level follows from final_score by the thresholds alone: CRISIS iff
\* final_score >= 0.90, CAUTION iff 0.65 <= final_score < 0.90, SAFE
\* otherwise.
C16_ThresholdsDecide ==
    (Returned /\ ~FloorOrClinicalCrisis) =>
       /\ risk_level = "CRISIS" <=> final_score.num >= 90 * final_score.den
       /\ risk_level = "CAUTION" <=>
             /\ final_score.num >= 65 * final_score.den
             /\ final_score.num < 90 * final_score.den
       /\ risk_level = "SAFE" <=> final_score.num < 65 * final_score.den

\* a run classified CAUTION by its score alone
C16_Witness ==
    /\ Returned /\ mode = "run"
    /\ ~FloorOrClinicalCrisis
    /\ risk_level = "CAUTION"

\* the safety result sends the run to the Clinical node
ClinicalRequired ==
    \/ safety_result.p_regex >= 90
    \/ safety_result.p_semantic > 50
    \/ safety_result.sarcasm_filtered
    \/ safety_result.matched_patterns # {}
    \/ safety_result.p_regex > 30

\* C17: after Reflex, run executes the Clinical node exactly when is_crisis
\* is true or p_semantic > 0.50 or sarcasm_filtered or matched_patterns is
\* non-empty or p_regex > 0.30; otherwise it goes directly to Empathy with
\* no Clinical result.
C17_RouteFromSafetyResult ==
    (mode = "run" /\ pc \notin {"reflex_agent", "raised_reflex"}) =>
       /\ pc \in {"clinical_agent", "clinical_await", "raised_clinical"}
             => ClinicalRequired
       /\ pc \in {"empathy_agent", "done", "raised"} =>
             /\ (mistral_result # None) <=> ClinicalRequired
             /\ (Len(trace_steps) >= 2
                   /\ trace_steps[2] = "clinical_reviewed") <=> ClinicalRequired

\* a run sent to the Clinical node by p_regex > 0.30 alone
C17_Witness ==
    /\ Returned /\ mode = "run"
    /\ safety_result.p_regex = 31
    /\ safety_result.p_semantic = 0
    /\ ~safety_result.sarcasm_filtered
    /\ safety_result.matched_patterns = {}
    /\ mistral_result # None

\* C19: the semantic layer alone never causes a CRISIS decision: a triage
\* with p_regex = 0 and a Clinical result that is absent, or has
\* p_mistral = 0 and a risk level other than CRISIS, is never classified
\* CRISIS, whatever the semantic score.
C19_SemanticAloneNeverCrisis ==
    (/\ Returned
     /\ safety_result.p_regex = 0
     /\ \/ mistral_result = None
        \/ /\ mistral_result.p_mistral = 0
           /\ mistral_result.risk_level # "crisis")
        => (risk_level # "CRISIS" /\ ~is_crisis)

\* a triage whose semantic score is 1.0 and whose other layers are silent
C19_Witness ==
    /\ Returned
    /\ safety_result.p_regex = 0
    /\ safety_result.p_semantic = 100
    /\ mistral_result # None
    /\ mistral_result.p_mistral = 0
    /\ mistral_result.risk_level = "safe"
    /\ risk_level = "SAFE"

\* C20: run raises only when the Reflex step itself fails: a failure of the
\* Clinical step or of response generation never makes run raise.
C20_RunRaisesOnlyOnReflexFailure ==
    mode = "run" => pc \notin {"raised", "raised_clinical"}

\* the fused score of the regex and semantic layers alone
TwoLayerScore ==
    [ num |-> safety_result.p_regex * ConsensusConfig.w_regex
              + safety_result.p_semantic * ConsensusConfig.w_semantic,
      den |-> ConsensusConfig.w_regex + ConsensusConfig.w_semantic ]

C9_NewTriageCompletes ==
    /\ (pc \in {"reflex_agent", "fast_safety"}) ~> (safety_result # None)
    /\ (pc = "fast_safety") ~> Returned

\* C38: for the same message, history and layer outputs (safety result and
\* Clinical result) analyze_fast and run return the same final_score,
\* risk_level and is_crisis: what a finished run returns is what
\* analyze_fast's scoring (fusion, thresholds and floor of lines 346-424)
\* makes of the run's safety result and Clinical result.
C38_RunAgreesWithAnalyzeFast ==
    (mode = "run" /\ pc = "done") =>
       LET score == Consensus(ConsensusConfig, safety_result, mistral_result)
           level == FastRisk(ConsensusConfig, score, safety_result.p_regex)
       IN /\ final_score = score
          /\ risk_level = level
          /\ is_crisis = (level = "CRISIS")

\* C40: in every result returned by run and by analyze_fast, is_crisis is
\* true if and only if risk_level is CRISIS; and within a run, once
\* is_crisis has been set to true by Reflex or Clinical, no later node sets
\* it back to false.
C40_CrisisFlagMatchesLevel ==
    [][/\ pc' = "done" => (is_crisis' <=> risk_level' = "CRISIS")
       /\ (mode = "run" /\ is_crisis /\ mode' = "run"
            /\ pc' # "reflex_agent") => is_crisis']_vars

\* a run returned CRISIS on the word of the Clinical reasoner alone: the
\* regex score is below the floor and the fused score below the threshold
C40_Witness ==
    /\ mode = "run" /\ pc = "done"
    /\ safety_result.p_regex < RegexFloor
    /\ mistral_result # None
    /\ mistral_result.risk_level = "crisis"
    /\ ~ScoreAtLeast(final_score, ConsensusConfig.crisis_threshold)
    /\ is_crisis
    /\ risk_level = "CRISIS"

\* ------------------------------------------------------------------------
\* Properties of MistralReasoner.analyze (SpecReasoner, FairSpecReasoner)
\* ------------------------------------------------------------------------
BreakerOpen == IsCircuitOpen(expert_failures)

\* select_strategy's answer under an open breaker
FastBecauseOpen == [ strategy |-> "fast", reason |-> "circuit_breaker_open" ]

\* a select_strategy call made while the breaker is open returns Fast with
\* reason circuit_breaker_open, and analyze returns its Fast result without
\* an Expert thread
SelectWhileOpen(c) ==
    (apc[c] = "select" /\ apc'[c] # "select" /\ BreakerOpen)
        => /\ selected'[c] = FastBecauseOpen
           /\ apc'[c] = "returned"
           /\ analyze_result'[c] = fast_result[c]
           /\ expert'[c] = "none"

\* C4 (as amended): while the breaker is open every select_strategy call
\* returns Fast with reason circuit_breaker_open, also for a message with
\* crisis keywords, and no analyze call whose select_strategy ran while the
\* breaker was open invokes the Expert strategy.
C4_OpenBreakerSelectsFast ==
    /\ [][\A c \in Callers : SelectWhileOpen(c)]_vars
    /\ [](\A c \in Callers :
            selected[c] = FastBecauseOpen => expert[c] = "none")

\* a call with a crisis-keyword message was answered by Fast because the
\* breaker was open
C4_Witness ==
    \E c \in Callers :
        /\ apc[c] = "returned"
        /\ selected[c] = FastBecauseOpen
        /\ message[c].crisis_keywords
        /\ analyze_result[c] = fast_result[c]

\* C4 (as claimed): while the breaker is open every select_strategy call
\* returns Fast with reason circuit_breaker_open and no analyze call at all
\* invokes the Expert strategy.
C4_NoExpertWhileOpen ==
    /\ [][\A c \in Callers : SelectWhileOpen(c)]_vars
    /\ [][\A c \in Callers :
            BreakerOpen => ~(expert[c] = "none" /\ expert'[c] = "started")]_vars

\* C5: an open breaker does not stay open forever: it closes again, so that
\* a qualifying message is routed to Expert once more.
C5_BreakerCloses == BreakerOpen ~> ~BreakerOpen

\* record_expert_failure of a timed-out call stores one more than it read
TimeoutStore(c) ==
    (outcome[c] = "timeout" /\ apc[c] = "record_failure_store"
        /\ apc'[c] # apc[c])
        => /\ expert_failures' = loaded[c] + 1
           /\ (loaded[c] + 1 >= MaxExpertFailures => BreakerOpen')

C7_AnalyzeReturnsWhenExpertHangs ==
    \A c \in Callers :
        (apc[c] = "wait" /\ expert[c] = "hung") ~> (apc[c] = "returned")

\* C11: updates of the failure counter are atomic: every record_expert_failure
\* leaves the counter exactly one above the value it had just before, so that
\* no recorded failure is lost and the counter equals the number of failures
\* recorded since the last recorded success.
C11_CounterUpdatesAtomic ==
    [][\A c \in Callers :
         (apc[c] = "record_failure_store" /\ apc'[c] # apc[c])
             => expert_failures' = expert_failures + 1]_vars

\* ------------------------------------------------------------------------
\* Properties of the CrisisEventBus (SpecOrchestrator, Spec)
\* ------------------------------------------------------------------------
\* C12: publish invokes every subscribed observer exactly once, in
\* subscription order; an observer that raises neither stops the later
\* observers nor makes publish raise.
C12_PublishNotifiesAll ==
    /\ bpc # "raised"
    /\ bpc = "returned" =>
          /\ Len(notified) = Len(observers)
          /\ \A i \in 1..Len(notified) : notified[i] = i

\* C13: every triage whose final decision is CRISIS - by CouncilGraph.run,
\* CouncilGraph.analyze_fast or ConsensusOrchestrator.analyze - publishes its
\* result exactly once, and a CAUTION or SAFE triage publishes nothing.
C13_CrisisPublishedOnce ==
    /\ Returned => published = (IF risk_level = "CRISIS" THEN 1 ELSE 0)
    /\ opc = "returned" =>
          published = (IF consensus_result.risk_level = "CRISIS" THEN 1 ELSE 0)

\* ------------------------------------------------------------------------
\* Properties of ConversationAgent (SpecConversation)
\* ------------------------------------------------------------------------
\* C14: the validator replaces the candidate reply by the safe fallback
\* exactly when the reply contains a response crisis token and the student
\* message contains no student crisis token, and returns it unchanged
\* otherwise; so no text returned by generate_response, on any branch,
\* contains a response crisis token unless the student message contained a
\* student crisis token.
C14_NoIntroducedCrisisToken ==
    cpc = "returned" =>
       /\ IF Mentions(candidate, ResponseCrisisTokens)
               /\ ~Mentions(student_message, StudentCrisisTokens)
          THEN response_text \in { AcademicFallback, ParentalFallback,
                                   GenericFallback }
          ELSE response_text = candidate
       /\ Mentions(response_text, ResponseCrisisTokens)
             => Mentions(student_message, StudentCrisisTokens)

\* a reply of the model that mentions suicide, to a student who did not, was
\* replaced by a fallback
C14_Witness ==
    /\ cpc = "returned"
    /\ response_mode = "native_mistral"
    /\ "suicide" \in candidate
    /\ ~Mentions(student_message, StudentCrisisTokens)
    /\ response_text # candidate

\* C22: when the Expert strategy was selected and its inference raised or
\* failed (no timeout), the call records a failure and returns the Fast
\* result; it is never recorded as an Expert success.
C22_ExpertFailureFallsBackToFast ==
    [][\A c \in Callers :
         ( /\ apc[c] = "wait"
           /\ expert[c] = "done"
           /\ expert_result[c].model_used = "error"
           /\ apc'[c] # "wait" )
         => /\ apc'[c] = "record_failure"
            /\ outcome'[c] # "expert"]_vars

\* C34: when generate_response is called with a context whose risk_level is
\* CRISIS, the returned response is the hard-coded crisis protocol text and
\* the LLM output is bypassed.
C34_CrisisContextGetsProtocol ==
    (cpc = "returned" /\ context_risk_level = "CRISIS")
        => response_text = CrisisProtocol

\* C33: for a message containing an explicit crisis keyword, analyze with
\* intelligent selection returns a risk level of CRISIS or CAUTION whichever
\* strategy produced the result: Expert, or Fast after an Expert timeout,
\* an Expert failure or with the breaker open.
C33_CrisisKeywordNeverSafe ==
    \A c \in Callers :
        (apc[c] = "returned" /\ message[c].crisis_keywords)
            => analyze_result[c].risk_level \in {"crisis", "caution"}

\* C35: in every analyze call with intelligent selection the Fast strategy
\* runs once, at the start of the call and before select_strategy; the
\* Expert strategy is invoked at most once, only after Fast has completed
\* and only if it was selected; when Fast is selected its result is
\* returned with no Expert invocation and no change to the failure counter.
C35_FastFirstExpertAtMostOnce ==
    [][\A c \in Callers :
         /\ fast_result'[c] # fast_result[c]
               => (apc[c] \in {"idle", "returned"} /\ apc'[c] = "select")
         /\ (selected'[c] # selected[c] /\ selected'[c] # NoSelection)
               => /\ apc[c] = "select"
                  /\ fast_result[c] # NoResult
                  /\ fast_result'[c] = fast_result[c]
         /\ (expert[c] = "none" /\ expert'[c] = "started")
               => /\ apc[c] = "submit" /\ apc'[c] = "wait"
                  /\ selected[c].strategy = "expert"
                  /\ fast_result[c] # NoResult
         /\ (apc[c] # "submit" /\ apc'[c] = "submit") => apc[c] = "select"
         /\ (apc[c] = "select" /\ apc'[c] # "select"
               /\ selected'[c].strategy = "fast")
               => /\ apc'[c] = "returned"
                  /\ analyze_result'[c] = fast_result[c]
                  /\ expert[c] = "none" /\ expert'[c] = "none"
                  /\ expert_failures' = expert_failures]_vars

\* a routine message answered by Fast alone while failures of other calls
\* are on the counter, and a call that went on to the Expert
C35_Witness ==
    /\ apc[1] = "returned"
    /\ selected[1] = [ strategy |-> "fast", reason |-> "routine" ]
    /\ analyze_result[1] = fast_result[1]
    /\ outcome[1] = "fast"
    /\ expert_failures > 0
    /\ selected[2].strategy = "expert"
    /\ expert[2] = "started"

\* C25: select_strategy applies its rules in strict priority (breaker
\* open: Fast/circuit_breaker_open; else crisis keyword:
\* Expert/crisis_keywords; else preliminary_risk > 0.7: Expert/high_risk;
\* else ambiguous: Expert/ambiguous; else Fast/routine), so Expert is
\* selected iff the breaker is closed and one of the three triggers holds,
\* and it changes no selector state.
C25_SelectionPriority ==
    [][\A c \in Callers :
         (apc[c] = "select" /\ apc'[c] # "select") =>
            LET open == expert_failures >= MaxExpertFailures
                keyword == message[c].crisis_keywords
                high == fast_result[c].p_mistral > 70
                ambiguous == message[c].ambiguous
                choice == selected'[c]
            IN /\ expert_failures' = expert_failures
               /\ choice.strategy = "expert"
                     <=> (~open /\ (keyword \/ high \/ ambiguous))
               /\ choice.strategy = "fast"
                     <=> (open \/ ~(keyword \/ high \/ ambiguous))
               /\ open => choice.reason = "circuit_breaker_open"
               /\ (~open /\ keyword) => choice.reason = "crisis_keywords"
               /\ (~open /\ ~keyword /\ high) => choice.reason = "high_risk"
               /\ (~open /\ ~keyword /\ ~high /\ ambiguous)
                     => choice.reason = "ambiguous"
               /\ (~open /\ ~keyword /\ ~high /\ ~ambiguous)
                     => choice.reason = "routine"]_vars

\* the Expert was selected for the preliminary risk alone, and for an
\* ambiguous message alone
C25_Witness ==
    /\ \E c \in Callers :
          /\ selected[c] = [ strategy |-> "expert", reason |-> "high_risk" ]
          /\ ~message[c].crisis_keywords
    /\ \E c \in Callers :
          /\ selected[c] = [ strategy |-> "expert", reason |-> "ambiguous" ]
          /\ fast_result[c].p_mistral <= 70

\* generate_response returned for "I failed my exam and my parents will be
\* mad" after the model's reply contained "suicide"
ExamAndParentsReplaced ==
    /\ cpc = "returned"
    /\ student_message = { "exam", "parent" }
    /\ "suicide" \in candidate

\* C32 as stated: for the student message "I failed my exam and my parents
\* will be mad" and a generated reply containing "suicide", the response
\* returned is the parental-stressor fallback.
C32_ParentalFallbackReturned ==
    ExamAndParentsReplaced => response_text = ParentalFallback

\* C32, amended: for that message and reply the response returned is the
\* deterministic academic-stressor fallback (the one about the exam, which
\* asks about talking to the parents), not the generated reply, the
\* parental or the generic fallback.
C32_AcademicFallbackReturned ==
    ExamAndParentsReplaced =>
       /\ response_text = AcademicFallback
       /\ response_text # candidate
       /\ response_text \notin { ParentalFallback, GenericFallback }

\* the replacement happened
C32_Witness ==
    /\ ExamAndParentsReplaced
    /\ response_mode = "native_mistral"
    /\ response_text = AcademicFallback

\* ------------------------------------------------------------------------
\* Properties of the reasoning strategies (SpecStrategies)
\* ------------------------------------------------------------------------
\* the strategy could not infer, or could not parse what the model wrote
StrategyFailed ==
    \/ /\ strategy_call.strategy = "fast"
       /\ \/ ~strategy_call.transformers_available
          \/ strategy_call.classifier_raises
    \/ /\ strategy_call.strategy = "expert"
       /\ \/ strategy_call.generate # "text"
          \/ ~Parsed(strategy_call.text)

\* C21: whenever the Fast or the Expert strategy fails to infer or to parse
\* the model output, analyze returns the complete fallback result
\* (p_mistral = 0, SAFE, no markers, model_used = "error") and nothing else.
C21_FailureReturnsErrorFallback ==
    StrategyFailed => strategy_result = ErrorFallback

\* ------------------------------------------------------------------------
\* Properties of ConsensusConfig (SpecConfig)
\* ------------------------------------------------------------------------
\* the sum of the four weights given to the constructor
WeightSum ==
    config_call.w_regex + config_call.w_semantic + config_call.w_mistral
       + config_call.w_history

\* C26: constructing a ConsensusConfig fails whenever the weights sum to a
\* value outside [0.99, 1.01], a weight is negative, a threshold lies
\* outside [0,1], crisis_threshold <= caution_threshold or a timeout is not
\* strictly positive; any other configuration is constructed with every
\* field exactly as given.
C26_InvalidConfigRejected ==
    config_call # None =>
       LET invalid ==
             \/ WeightSum < 99
             \/ WeightSum > 101
             \/ config_call.w_regex < 0
             \/ config_call.w_semantic < 0
             \/ config_call.w_mistral < 0
             \/ config_call.w_history < 0
             \/ config_call.crisis_threshold < 0
             \/ config_call.crisis_threshold > 100
             \/ config_call.caution_threshold < 0
             \/ config_call.caution_threshold > 100
             \/ config_call.crisis_threshold <= config_call.caution_threshold
             \/ ~(config_call.mistral_timeout > 0)
             \/ ~(config_call.total_timeout > 0)
       IN /\ invalid => config_result = ValueError
          /\ ~invalid => config_result = config_call

\* a configuration at the edge of the weight tolerance was constructed, as
\* given
C26_Witness ==
    /\ config_call # None
    /\ WeightSum = 101
    /\ config_call.crisis_threshold = 100
    /\ config_call.caution_threshold = 0
    /\ config_result = config_call

\* C37: for every ConsensusConfig that passes construction validation the
\* PACA fusion of the Empathy node is defined: neither denominator
\* (w_regex + w_semantic + w_mistral with a Clinical result, w_regex +
\* w_semantic without one) is zero, so the fusion never fails with a
\* division error.
C37_FusionDefined ==
    (config_call # None /\ config_result # ValueError) =>
       LET safety == CHOOSE r \in SafetyResults : TRUE
           clinical_result == CHOOSE r \in ReasoningResults : TRUE
       IN /\ Consensus(config_result, safety, clinical_result).den # 0
          /\ Consensus(config_result, safety, None).den # 0

\* ------------------------------------------------------------------------
\* Properties of RegexDetectionStrategy (SpecRegex)
\* ------------------------------------------------------------------------
\* the phrase occurs in the text at position i, whatever the case
OccursAt(phrase, text, i) ==
    /\ i + Len(phrase) - 1 <= Len(text)
    /\ \A j \in 1..Len(phrase) : Lower(text[i + j - 1]) = Lower(phrase[j])

\* the phrase occurs somewhere in the text
Occurs(phrase, text) == \E i \in 1..Len(text) : OccursAt(phrase, text, i)

\* the phrase occurs in the text with no word character right before it and
\* none right after it
OccursDelimited(phrase, text) ==
    \E i \in 1..Len(text) :
       /\ OccursAt(phrase, text, i)
       /\ i = 1 \/ text[i - 1] \notin WordChars
       /\ i + Len(phrase) - 1 = Len(text)
            \/ text[i + Len(phrase)] \notin WordChars

C28_NoPartialWordMatch ==
    /\ (\A c \in Categories : \A phrase \in Catalog[c].patterns :
           ~OccursDelimited(phrase, regex_message))
          => regex_result = [ score |-> 0, matches |-> {} ]
    /\ \A c \in regex_result.matches :
          \E phrase \in Catalog[c].patterns :
             OccursDelimited(phrase, regex_message)

\* "studied": the phrase "die" inside a longer word, and no match
C28_Witness ==
    /\ regex_message = << "s", "t", "u", "d", "i", "e", "d" >>
    /\ Occurs(<< "d", "i", "e" >>, regex_message)
    /\ regex_result = [ score |-> 0, matches |-> {} ]

\* ------------------------------------------------------------------------
\* Properties of LLMEngine (SpecEngine)
\* ------------------------------------------------------------------------
\* C10: at any moment at most one thread is executing a completion on the
\* underlying model, counting the consumption of a streamed chat.
C10_OneThreadOnModel ==
    Cardinality({ t \in EngineThreads : OnModel(t) }) <= 1

\* ------------------------------------------------------------------------
\* Properties of the LLMEngine singleton (SpecSingleton)
\* ------------------------------------------------------------------------
\* C23: once the engine has entered mock_mode it never leaves it, and every
\* later generate or chat call returns the fixed placeholder without
\* raising.
C23_MockModeIsPermanent ==
    [][mock_mode =>
         /\ mock_mode'
         /\ \A t \in EngineThreads :
               (epc[t] = "idle" /\ epc'[t] # "idle")
                  => epc'[t] = "mock_returned"]_vars

\* C24: under any interleaving of concurrent LLMEngine() and
\* get_llm_engine() calls exactly one engine instance exists and the model
\* is loaded at most once: no load starts while a model handle is present
\* and two loads never run at the same time.
C24_OneInstanceOneLoad ==
    /\ instances <= 1
    /\ loads <= 1
    /\ Cardinality({ t \in EngineThreads : epc[t] = "loading" }) <= 1
    /\ \A t \in EngineThreads : epc[t] = "loading" => model = "none"

\* ------------------------------------------------------------------------
\* Properties of SafetyService with the Council (SpecSafety)
\* ------------------------------------------------------------------------
\* the service has analysed the message of the current triage
ServiceAnalysed ==
    /\ service_call # None
    /\ safety_result # None

\* C29: sarcasm or positive-sentiment detection never lowers p_regex and
\* never clears is_crisis: the record's p_regex is the regex layer's score of
\* the message whatever p_sarcasm is, every record with p_regex >= 0.90 has
\* is_crisis true, and every result the Council returns for such a message
\* is CRISIS, also when p_sarcasm > 0.7 and sarcasm_filtered is true.
C29_SarcasmNeverClearsCrisis ==
    ServiceAnalysed =>
       /\ service_result.p_regex = RegexAnalyze(service_call.message).score
       /\ service_result.p_regex >= CrisisFloor => service_result.is_crisis
       /\ (Returned /\ service_result.p_regex >= CrisisFloor)
             => (risk_level = "CRISIS" /\ is_crisis)

\* "I want to kill myself lol": the laugh sets sarcasm_filtered and cuts the
\* semantic score, the fused score stays below the crisis threshold, and
\* the run still returns CRISIS
C29_Witness ==
    /\ ServiceAnalysed /\ Returned /\ mode = "run"
    /\ Contains(<< "l", "o", "l" >>, service_call.message)
    /\ service_result.p_sarcasm > SarcasmThreshold
    /\ service_result.sarcasm_filtered
    /\ service_result.p_semantic < service_call.semantic.score
    /\ service_result.p_regex >= CrisisFloor
    /\ service_result.is_crisis
    /\ ~ScoreAtLeast(final_score, ConsensusConfig.crisis_threshold)
    /\ risk_level = "CRISIS"

\* ------------------------------------------------------------------------
\* Properties of chat_stream.generate_stream (SpecStream)
\* ------------------------------------------------------------------------
\* the events of the response that follow analyze_fast: all but the first
\* thinking event
EventsAfterAnalysis == SubSeq(events, 2, Len(events))

\* the events the claim orders, for the record analyze_fast returned
OrderedEvents(result) ==
    << RegexScore, SemanticScore,
       Event("risk_score", "mistral", result.mistral_result = None, FALSE),
       Event("consensus_verdict", "none", FALSE, result.is_crisis) >>
    \o (IF result.is_crisis THEN << CrisisAlert >> ELSE << >>)

\* response generation has begun: generate_response was called, or a token
\* or the completion event was sent
GenerationBegun ==
    \/ spc \in {"generate_response", "tokens"}
    \/ \E i \in 1..Len(events) : events[i].type \in {"token", "done"}

\* C30: in every /chat/stream response the events after analyze_fast are, in
\* this order, risk_score(regex), risk_score(semantic), risk_score(mistral)
\* with timeout true exactly when the Clinical result is absent, one
\* consensus_verdict, and crisis_alert exactly when is_crisis; no further
\* score, verdict or alert follows them, and response generation, tokens
\* and the completion event come only after all of them.
C30_StreamEventOrder ==
    analysis_result # None =>
       LET after == EventsAfterAnalysis
           ordered == OrderedEvents(analysis_result)
       IN /\ \A i \in 1..Len(after) :
               IF i <= Len(ordered)
               THEN after[i] = ordered[i]
               ELSE after[i].type \in {"thinking", "token", "done", "error"}
          /\ GenerationBegun => Len(after) >= Len(ordered)

\* a crisis response after a Clinical timeout that streamed its tokens and
\* completed
C30_Witness ==
    /\ spc = "closed"
    /\ analysis_result # None
    /\ analysis_result.is_crisis
    /\ analysis_result.mistral_result = None
    /\ Len(events) >= 9
    /\ events[4].timeout
    /\ events[6] = CrisisAlert
    /\ events[8] = Token
    /\ events[Len(events)].type = "done"

\* the response of the current request carries a crisis_alert event
CrisisAlertEmitted == \E i \in 1..Len(events) : events[i] = CrisisAlert

\* C39: every /chat/stream request for which a crisis_alert event was
\* emitted eventually has its Conversation and a CrisisEvent persisted, even
\* when the response generation that follows the alert fails: the response
\* of such a request comes to its end, and when it has, both rows are
\* committed.
C39_CrisisAlertIsPersisted ==
    /\ (CrisisAlertEmitted /\ spc # "closed") ~> (spc = "closed")
    /\ []((CrisisAlertEmitted /\ spc = "closed")
            => (conversation_saved /\ crisis_event_saved))

\* ------------------------------------------------------------------------
\* Properties of the endpoints (SpecEndpoints)
\* ------------------------------------------------------------------------
\* /chat replied to a request whose response generation raised in run
ChatGenerationFailed ==
    /\ chat_pc = "replied"
    /\ mode = "run" /\ pc = "raised"

\* /chat/stream ended a response whose generate_response call raised: the
\* stream ends right after the second thinking event
StreamGenerationFailed ==
    /\ spc = "closed"
    /\ analysis_result # None
    /\ Len(events) >= 6
    /\ events[Len(events) - 1] = Thinking
    /\ events[Len(events)].type \notin {"token", "done"}

\* C31: when response generation fails, /chat and /chat/stream deliver the
\* static crisis-resources block to the user, not an error message.
C31_FailureDeliversCrisisResources ==
    /\ ChatGenerationFailed => chat_reply.body = ServiceUnavailableResponse
    /\ StreamGenerationFailed => events[Len(events)].type = "token"

\* ------------------------------------------------------------------------
\* Properties of the orchestrator's circuit breaker (SpecBreaker)
\* ------------------------------------------------------------------------
\* the breaker is open and circuit_breaker_timeout has not elapsed since the
\* last failure
OpenWithinTimeout ==
    /\ is_open
    /\ last_failure_time # None
    /\ now - last_failure_time.at <= circuit_breaker_timeout

\* C36: circuit_breaker_threshold consecutive Mistral timeouts or failures
\* open the breaker (it is open when the analyze call of the last of them
\* has gathered its layers), and while the breaker is open and
\* circuit_breaker_timeout has not elapsed since the last failure, analyze
\* makes no call to the Mistral reasoner and the breaker stays open: a
\* skipped call is not counted as a success.
C36_BreakerOpensAndStaysOpen ==
    [][/\ (mpc = "gathered" /\ mpc' = "returned"
            /\ failed_in_a_row' >= circuit_breaker_threshold) => is_open'
       /\ (OpenWithinTimeout /\ now' = now)
            => (is_open' /\ mpc' # "await_mistral")]_vars

====
